---------------------------- MODULE Spec2Model ----------------------------
(***************************************************************************)
(* Quadruped firmware: the servo port (ServoController.set_angle), the     *)
(* inverse kinematics, the cached foot trajectory, the trot gait step and  *)
(* the motion loop (Quadruped.move) driven by main().                      *)
(*                                                                         *)
(* Units.  Lengths are integers in 1/100 cm, angles are integers in        *)
(* degrees, intent components are integers in 1/10 (10 is 1.0).  An        *)
(* arc-cosine is rounded up to the next degree and a hip angle away from   *)
(* zero, so that the range test 0 <= angle <= 180 of set_angle gives the   *)
(* answer the floating-point code gives.                                   *)
(***************************************************************************)
EXTENDS Integers, Sequences, FiniteSets, TLC

----------------------------------------------------------------------------
(* Bounds of the model *)

\* ticks of the motion loop explored
MaxTicks == 3
\* direct calls of set_angle explored in the unit-level harness
MaxApiCalls == 1
\* largest retry_count a direct call passes
MaxRetry == 3
\* largest step_index a direct call of apply_trot_gait_step passes
MaxStepIndex == 85
\* direct calls of InverseKinematics.calculate explored on one solver
MaxIkCalls == 2
MaxTrajCalls == 3
MaxErrorCount == 11
MaxTxLoops == 3
MaxRxCalls == 3
MaxWire == 1
MaxKbCalls == 3

----------------------------------------------------------------------------
(* Program constants *)

\* Quadruped.__init__: step_resolution = 20
step_resolution == 20
\* set_angle(..., retry_count: int = 3)
DefaultRetry == 3
\* InverseKinematics.__init__ defaults, lengths in 1/100 cm
upper_leg_length == 1000
lower_leg_length == 1050
shoulder_offset == 10
elbow_offset == 20
hip_offset == 0
\* kinematics_config.get('hip_offset', 2.0), in 1/100 cm
hip_parameter == 200

\* class Motor(IntEnum)
Motor == [FR_SHOULDER |-> 0, FR_ELBOW |-> 1, FR_HIP |-> 2,
          FL_SHOULDER |-> 3, FL_ELBOW |-> 4, FL_HIP |-> 5,
          BR_SHOULDER |-> 6, BR_ELBOW |-> 7,
          BL_SHOULDER |-> 8, BL_ELBOW |-> 9]

NoMotor == 99

----------------------------------------------------------------------------
(* Values as Python sees them: a tag for the run-time type and the number *)

IntVal(n) == [t |-> "int", v |-> n]
FloatVal(n) == [t |-> "float", v |-> n]
StrVal == [t |-> "str", v |-> 0]

\* validate_motor_id: isinstance(motor_id, int) and 0 <= motor_id < 10
ValidMotorIdMut(m) == m.t = "int" /\ 0 <= m.v /\ m.v <= 10
validate_motor_id(m) == m.t = "int" /\ 0 <= m.v /\ m.v < 10

\* validate_angle: isinstance(angle, (int, float)) and 0.0 <= angle <= 180.0
validate_angle(a) == a.t \in {"int", "float"} /\ 0 <= a.v /\ a.v <= 180

\* validate_coordinate: isinstance(value, (int, float))
validate_coordinate(c) == c.t \in {"int", "float"}


----------------------------------------------------------------------------
(* The metrics collaborator (RobotMetrics, or none): which of its recording *)
(* methods raise.  The RobotMetrics of this repository raises in none.      *)

MetricsMethods == {"record_motor_angle", "record_performance",
                   "record_controller_status", "record_movement"}

NoMetrics == [present |-> FALSE, fails |-> {}]
WorkingMetrics == [present |-> TRUE, fails |-> {}]
FaultyMetrics == {[present |-> TRUE, fails |-> {f}] : f \in MetricsMethods}

\* a call of metrics method f raises
MetricsRaises(mm, f) == mm.present /\ f \in mm.fails

----------------------------------------------------------------------------
(* ServoController.set_angle *)

\* what one hardware write (kit.servo[motor_id].angle = degrees) does:
\* it returns, it raises, or the external abort (KeyboardInterrupt) arrives
HwOutcomes == {"ok", "fail", "int"}

\* set_angle reads the outcome of attempt k + 1 only if attempt k raised
\* inside the try block
ReadsPastOk(mm) ==
    \/ MetricsRaises(mm, "record_motor_angle")
    \/ MetricsRaises(mm, "record_performance")

\* the behaviours of the hardware during one call with n attempts, one
\* outcome per attempt; outcomes the call cannot read are fixed to "fail"
HwPlans(n, mm) ==
    { plan \in [1..n -> HwOutcomes] :
        \/ ReadsPastOk(mm) /\ \A k \in 1..n : plan[k] # "int"
        \/ \A k \in 1..n : plan[k] # "fail" =>
                \A j \in (k + 1)..n : plan[j] = "fail" }

NoCall == [motor_id |-> StrVal, degrees |-> StrVal, retry_count |-> 0,
           plan |-> <<>>, result |-> "none", writes |-> <<>>, alerts |-> 0,
           recorded |-> FALSE]

\* for attempt in range(retry_count)
InRange(attempt, retry_count) == attempt < retry_count

\* the body of the try block of one attempt runs to its end (return True):
\* the write returned and neither metrics call raised
TryBodyCompletesMut(o, mm) == o = "ok" \/ o = "fail"
TryBodyCompletes(o, mm) ==
    /\ o = "ok"
    /\ ~MetricsRaises(mm, "record_motor_angle")
    /\ ~MetricsRaises(mm, "record_performance")

\* after the loop: send_error_alert(...) ; raise ServoError(...)
AllRetriesFailedMut(writes) ==
    [result |-> "False", writes |-> writes, alerts |-> 0, recorded |-> FALSE]
AllRetriesFailed(writes) ==
    [result |-> "ServoError", writes |-> writes, alerts |-> 1, recorded |-> FALSE]

\* self.kit.servo[motor_id].angle = degrees, with the outcome o of the
\* hardware
HwWriteMut(motor_id, degrees, o) ==
    [ch |-> 0, angle |-> degrees.v, ok |-> (o = "ok")]
HwWrite(motor_id, degrees, o) ==
    [ch |-> motor_id.v, angle |-> degrees.v, ok |-> (o = "ok")]

RECURSIVE RetryLoop(_, _, _, _, _, _, _, _)
RetryLoop(attempt, motor_id, degrees, retry_count, plan, mm, writes, rec) ==
    IF ~InRange(attempt, retry_count)
    THEN [AllRetriesFailed(writes) EXCEPT !.recorded = rec]
    ELSE LET o == plan[attempt + 1]
             w == HwWrite(motor_id, degrees, o)
             \* record_motor_angle ran to its end in this attempt
             r == \/ rec
                  \/ /\ o = "ok"
                     /\ mm.present
                     /\ ~MetricsRaises(mm, "record_motor_angle")
         IN  IF o = "int"
             THEN [result |-> "KeyboardInterrupt", writes |-> writes,
                   alerts |-> 0, recorded |-> rec]
             ELSE IF TryBodyCompletes(o, mm)
             THEN [result |-> "True", writes |-> Append(writes, w),
                   alerts |-> 0, recorded |-> r]
             ELSE RetryLoop(attempt + 1, motor_id, degrees, retry_count,
                            plan, mm, Append(writes, w), r)

set_angle(motor_id, degrees, retry_count, plan, mm) ==
    IF ~validate_motor_id(motor_id) \/ ~validate_angle(degrees)
    THEN [result |-> "ValidationError", writes |-> <<>>, alerts |-> 0,
          recorded |-> FALSE]
    ELSE RetryLoop(0, motor_id, degrees, retry_count, plan, mm, <<>>, FALSE)

\* the call as the observer sees it: its inputs and what it did
CallRecord(motor_id, degrees, retry_count, plan, mm) ==
    LET r == set_angle(motor_id, degrees, retry_count, plan, mm)
    IN  [motor_id |-> motor_id, degrees |-> degrees,
         retry_count |-> retry_count, plan |-> plan, result |-> r.result,
         writes |-> r.writes, alerts |-> r.alerts, recorded |-> r.recorded]

\* the successful writes of a call, in order
OkWrites(writes) == SelectSeq(writes, LAMBDA w : w.ok)

\* kit.servo[ch].angle after the writes of a call
ServoAfter(sv, writes) ==
    LET ok == OkWrites(writes)
    IN  IF ok = <<>> THEN sv
        ELSE [c \in DOMAIN sv \cup {ok[1].ch} |->
                 IF c = ok[1].ch THEN ok[Len(ok)].angle ELSE sv[c]]

\* metrics.motor_angles after a call
AnglesAfterMut(ma, call) ==
    [c \in DOMAIN ma \cup {call.motor_id.v} |->
        IF c = call.motor_id.v THEN call.degrees.v ELSE ma[c]]
AnglesAfter(ma, call) ==
    IF ~call.recorded THEN ma
    ELSE [c \in DOMAIN ma \cup {call.motor_id.v} |->
             IF c = call.motor_id.v THEN call.degrees.v ELSE ma[c]]

----------------------------------------------------------------------------
(* InverseKinematics.calculate *)

\* 10000 * cos(a degrees), a = 0..180 (math.acos is read off this table)
CosTable == <<
    10000, 9998, 9994, 9986, 9976, 9962, 9945, 9925, 9903, 9877,
    9848, 9816, 9781, 9744, 9703, 9659, 9613, 9563, 9511, 9455,
    9397, 9336, 9272, 9205, 9135, 9063, 8988, 8910, 8829, 8746,
    8660, 8572, 8480, 8387, 8290, 8192, 8090, 7986, 7880, 7771,
    7660, 7547, 7431, 7314, 7193, 7071, 6947, 6820, 6691, 6561,
    6428, 6293, 6157, 6018, 5878, 5736, 5592, 5446, 5299, 5150,
    5000, 4848, 4695, 4540, 4384, 4226, 4067, 3907, 3746, 3584,
    3420, 3256, 3090, 2924, 2756, 2588, 2419, 2250, 2079, 1908,
    1736, 1564, 1392, 1219, 1045, 872, 698, 523, 349, 175,
    0, -175, -349, -523, -698, -872, -1045, -1219, -1392, -1564,
    -1736, -1908, -2079, -2250, -2419, -2588, -2756, -2924, -3090, -3256,
    -3420, -3584, -3746, -3907, -4067, -4226, -4384, -4540, -4695, -4848,
    -5000, -5150, -5299, -5446, -5592, -5736, -5878, -6018, -6157, -6293,
    -6428, -6561, -6691, -6820, -6947, -7071, -7193, -7314, -7431, -7547,
    -7660, -7771, -7880, -7986, -8090, -8192, -8290, -8387, -8480, -8572,
    -8660, -8746, -8829, -8910, -8988, -9063, -9135, -9205, -9272, -9336,
    -9397, -9455, -9511, -9563, -9613, -9659, -9703, -9744, -9781, -9816,
    -9848, -9877, -9903, -9925, -9945, -9962, -9976, -9986, -9994, -9998,
    -10000
>>

Cos(a) == CosTable[a + 1]

Clamp(c) == IF c > 10000 THEN 10000 ELSE IF c < -10000 THEN -10000 ELSE c

\* math.degrees(math.acos(c / 10000)), rounded up to a whole degree
AcosDegUp(c) ==
    CHOOSE r \in {CHOOSE a \in 0..180 :
                      Cos(a) <= v /\ (a = 0 \/ Cos(a - 1) > v) :
                          v \in {c}} : TRUE

\* the same, rounded down
AcosDegDown(c) ==
    CHOOSE r \in {CHOOSE a \in 0..180 :
                      Cos(a) >= v /\ (a = 180 \/ Cos(a + 1) < v) :
                          v \in {c}} : TRUE

\* math.sqrt, rounded down: bisection on lo..hi with lo*lo <= n < hi*hi
RECURSIVE SqrtIn(_, _, _)
SqrtIn(n, lo, hi) ==
    IF hi - lo <= 1 THEN lo
    ELSE CHOOSE r \in {IF mid * mid <= n THEN SqrtIn(n, mid, hi)
                       ELSE SqrtIn(n, lo, mid) :
                           mid \in {(lo + hi) \div 2}} : TRUE

Sqrt(n) == SqrtIn(n, 0, 46340)

\* math.degrees(math.atan2(z, distance_xy)) with distance_xy > 0, rounded
\* away from zero: its sign is the sign of z
Atan2Deg(z, d) ==
    IF z = 0 THEN 0
    ELSE LET az == IF z < 0 THEN -z ELSE z
             down == 90 - AcosDegDown(Clamp((az * 10000) \div d))
             mag == IF down < 1 THEN 1 ELSE down
         IN  IF z < 0 THEN -mag ELSE mag

\* if y < 0.1: raise ValidationError
YTooSmallMut(y) == FALSE
YTooSmall(y) == y < 10

\* if distance_xyz > max_reach: raise KinematicsError
UnreachableMut(d2, max_reach) == FALSE
Unreachable(d2, max_reach) == d2 > max_reach * max_reach

IkError(e) == [result |-> e, shoulder |-> StrVal, elbow |-> StrVal,
               hip |-> StrVal]

\* the fields of an InverseKinematics built from the default configuration
Solver == [upper_leg_length |-> upper_leg_length,
           lower_leg_length |-> lower_leg_length,
           shoulder_offset |-> shoulder_offset,
           elbow_offset |-> elbow_offset,
           hip_offset |-> hip_offset,
           hip_parameter |-> hip_parameter]

\* the fields of the solver after a call of calculate: the method assigns
\* to its locals (hip_offset, z) only
SolverAfterMut(self) == [self EXCEPT !.hip_offset = self.hip_parameter]
SolverAfter(self) == self

\* if not right: z = -z
SideZMut(z, right) == z
SideZ(z, right) == IF right THEN z ELSE -z

\* calculate on the solver self
calculate_on(self, x, y, z, right) ==
    IF ~(validate_coordinate(x) /\ validate_coordinate(y)
            /\ validate_coordinate(z))
    THEN IkError("ValidationError")
    ELSE IF YTooSmall(y.v) THEN IkError("ValidationError")
    ELSE LET zz == SideZ(z.v, right)
             L1 == self.upper_leg_length
             L2 == self.lower_leg_length
             d2 == x.v * x.v + y.v * y.v + zz * zz
             d == Sqrt(d2)
         IN  IF Unreachable(d2, L1 + L2) THEN IkError("KinematicsError")
             ELSE LET cos_elbow ==
                          Clamp(((L1 * L1 + L2 * L2 - d2) * 100)
                                    \div ((2 * L1 * L2) \div 100))
                      cos_shoulder ==
                          Clamp(((L1 * L1 + d2 - L2 * L2) * 100)
                                    \div ((2 * L1 * d) \div 100))
                  IN  [result |-> "ok",
                       shoulder |->
                           FloatVal(AcosDegUp(cos_shoulder)
                                        + self.shoulder_offset),
                       elbow |-> FloatVal(AcosDegUp(cos_elbow)
                                              + self.elbow_offset),
                       hip |-> FloatVal(Atan2Deg(zz, d) + self.hip_offset)]

\* calculate on the solver of the Quadruped
calculate(x, y, z, right) == calculate_on(Solver, x, y, z, right)

----------------------------------------------------------------------------
(* TrajectoryGenerator.generate *)

\* control points of the lift (cubic) and the slide (linear), rows x, z, y
step_nodes == << <<-100, -100, 100, 100>>,
                 <<-100, -100, 100, 100>>,
                 <<-1500, -1000, -1000, -1500>> >>
slide_nodes == << <<100, -100>>, <<100, -100>>, <<-1500, -1500>> >>

\* num / den rounded to the nearest integer (den > 0)
Round(num, den) == (2 * num + den) \div (2 * den)

\* bezier.Curve(step_nodes, degree=3) at s = i / (n - 1): Bernstein form
Cubic(p, i, n) ==
    LET u == n - 1 - i
    IN  Round(p[1] * u * u * u + 3 * p[2] * u * u * i
                + 3 * p[3] * u * i * i + p[4] * i * i * i,
              (n - 1) * (n - 1) * (n - 1))

\* bezier.Curve(slide_nodes, degree=1) at s = i / (n - 1)
Linear(p, i, n) == Round(p[1] * (n - 1 - i) + p[2] * i, n - 1)

\* np.concatenate((step_trajectory, slide_trajectory), axis=1), one row
TrajectoryRow(row, n) ==
    [k \in 1..(2 * n) |->
        IF k <= n THEN Cubic(step_nodes[row], k - 1, n)
        ELSE Linear(slide_nodes[row], k - 1 - n, n)]

generate(n) == [x |-> TrajectoryRow(1, n), z |-> TrajectoryRow(2, n),
                y |-> TrajectoryRow(3, n)]

\* Python's None, and a value that is not None
None == [t |-> "None"]
Some(v) == [t |-> "some", v |-> v]

\* TrajectoryGenerator.__init__
TrajectoryGenerator(n) ==
    [step_resolution |-> n, cached_trajectory |-> None,
     cached_length |-> None]

\* if self._cached_trajectory is not None
CacheHitMut(self) == FALSE
CacheHit(self) == self.cached_trajectory # None

\* trajectory_length = len(motion_trajectory[0])
LengthOfMut(motion_trajectory) == 3
LengthOf(motion_trajectory) == Len(motion_trajectory.x)

\* TrajectoryGenerator.generate with its cache: the generator afterwards,
\* the pair it returns, and whether the curves were evaluated
generate_cached(self) ==
    IF CacheHit(self)
    THEN [self |-> self, trajectory |-> self.cached_trajectory.v,
          length |-> self.cached_length.v, evaluated |-> FALSE]
    ELSE LET motion_trajectory == generate(self.step_resolution)
             trajectory_length == LengthOf(motion_trajectory)
         IN  [self |-> [self EXCEPT
                           !.cached_trajectory = Some(motion_trajectory),
                           !.cached_length = Some(trajectory_length)],
              trajectory |-> motion_trajectory,
              length |-> trajectory_length, evaluated |-> TRUE]

\* TrajectoryGenerator.clear_cache
clear_cache(self) ==
    [self EXCEPT !.cached_trajectory = None, !.cached_length = None]

\* the generator after move scaled the trajectory by the intent m:
\* motion_trajectory[i] * momentum_3d[i] builds new arrays, the cached
\* arrays keep their values
CacheAfterScalingMut(self, m) ==
    IF self.cached_trajectory = None THEN self
    ELSE LET c == self.cached_trajectory.v
         IN  [self EXCEPT !.cached_trajectory = Some(
                 [x |-> [k \in 1..Len(c.x) |-> (c.x[k] * m[1]) \div 10],
                  z |-> [k \in 1..Len(c.z) |-> (c.z[k] * m[2]) \div 10],
                  y |-> [k \in 1..Len(c.y) |-> (c.y[k] * m[3]) \div 10]])]
CacheAfterScaling(self, m) == self

----------------------------------------------------------------------------
(* GaitController.apply_trot_gait_step *)

\* the four apply_trajectory_to_leg calls, in the order of the code:
\* pair 1 reads sample index_1, pair 2 reads sample index_2
Legs == <<
    [name |-> "FR", shoulder |-> Motor.FR_SHOULDER, elbow |-> Motor.FR_ELBOW,
     hip |-> Motor.FR_HIP, right |-> TRUE, pair |-> 1, dy |-> -100, zsign |-> 1],
    [name |-> "BR", shoulder |-> Motor.BR_SHOULDER, elbow |-> Motor.BR_ELBOW,
     hip |-> NoMotor, right |-> TRUE, pair |-> 2, dy |-> 200, zsign |-> 0],
    [name |-> "FL", shoulder |-> Motor.FL_SHOULDER, elbow |-> Motor.FL_ELBOW,
     hip |-> Motor.FL_HIP, right |-> FALSE, pair |-> 2, dy |-> -100, zsign |-> -1],
    [name |-> "BL", shoulder |-> Motor.BL_SHOULDER, elbow |-> Motor.BL_ELBOW,
     hip |-> NoMotor, right |-> FALSE, pair |-> 1, dy |-> 200, zsign |-> 0] >>

\* the set_angle calls of one leg: shoulder, elbow, and the hip if it has one
LegJointsMut(leg) == <<"shoulder", "elbow">>
LegJoints(leg) ==
    IF leg.hip = NoMotor THEN <<"shoulder", "elbow">>
    ELSE <<"shoulder", "elbow", "hip">>

RECURSIVE CommandsFrom(_)
CommandsFrom(l) ==
    IF l > Len(Legs) THEN <<>>
    ELSE [j \in 1..Len(LegJoints(Legs[l])) |->
             [leg |-> l, joint |-> LegJoints(Legs[l])[j], first |-> (j = 1)]]
         \o CommandsFrom(l + 1)

\* the set_angle calls of a whole gait step, in order
GaitCommands == CommandsFrom(1)

\* index_1 and index_2 of the step (0-based, as in the code)
TrotIndexSwapMut(pair, step, trajectory_length) ==
    IF pair = 2 THEN step % trajectory_length
    ELSE (step + step_resolution) % trajectory_length
TrotIndexWrapMut(pair, step, trajectory_length) ==
    LET s == IF pair = 1 THEN step ELSE step + step_resolution
    IN  IF s < trajectory_length THEN s
        ELSE (s - trajectory_length + 1) % trajectory_length
TrotIndexShiftMut(pair, step, trajectory_length) ==
    IF pair = 1 THEN step % trajectory_length
    ELSE (step + step_resolution \div 2) % trajectory_length
TrotIndex(pair, step, trajectory_length) ==
    IF pair = 1 THEN step % trajectory_length
    ELSE (step + step_resolution) % trajectory_length

\* the cached trajectory of the TrajectoryGenerator
CachedTrajectory == generate(step_resolution)

trajectory_length == Len(CachedTrajectory.x)

\* motion_trajectory[axis] * momentum[axis], one sample (k is 0-based)
Scaled(row, k, m) == (row[k + 1] * m) \div 10

\* trajectory = np.array([x_coords, z_coords, y_coords]): the working
\* trajectory of a tick, each row of motion_trajectory times its own
\* component of the momentum
ScaleTrajectoryMut(motion_trajectory, m) ==
    [x |-> [k \in 1..Len(motion_trajectory.x) |->
               Scaled(motion_trajectory.x, k - 1, m[1])],
     z |-> [k \in 1..Len(motion_trajectory.z) |->
               Scaled(motion_trajectory.z, k - 1, m[1])],
     y |-> [k \in 1..Len(motion_trajectory.y) |->
               Scaled(motion_trajectory.y, k - 1, m[3])]]
ScaleTrajectory(motion_trajectory, m) ==
    [x |-> [k \in 1..Len(motion_trajectory.x) |->
               Scaled(motion_trajectory.x, k - 1, m[1])],
     z |-> [k \in 1..Len(motion_trajectory.z) |->
               Scaled(motion_trajectory.z, k - 1, m[2])],
     y |-> [k \in 1..Len(motion_trajectory.y) |->
               Scaled(motion_trajectory.y, k - 1, m[3])]]

\* the target apply_trot_gait_step passes for a leg
LegTarget(leg, step, mom) ==
    LET k == TrotIndex(leg.pair, step, trajectory_length)
    IN  [x |-> FloatVal(Scaled(CachedTrajectory.x, k, mom[1])),
         y |-> FloatVal(Scaled(CachedTrajectory.y, k, mom[3]) + leg.dy),
         z |-> FloatVal(leg.zsign * Scaled(CachedTrajectory.z, k, mom[2]))]

LegIk(leg, step, mom) ==
    LET t == LegTarget(leg, step, mom)
    IN  calculate(t.x, t.y, t.z, leg.right)

JointMotor(leg, joint) ==
    IF joint = "shoulder" THEN leg.shoulder
    ELSE IF joint = "elbow" THEN leg.elbow ELSE leg.hip

JointAngle(ik, joint) ==
    IF joint = "shoulder" THEN ik.shoulder
    ELSE IF joint = "elbow" THEN ik.elbow ELSE ik.hip

\* the set_angle call number k of a gait step, on a servo port whose
\* hardware accepts every write
StepCall(k, step, mom, mm) ==
    LET c == GaitCommands[k]
        leg == Legs[c.leg]
    IN  CallRecord(IntVal(JointMotor(leg, c.joint)),
                   JointAngle(LegIk(leg, step, mom), c.joint), DefaultRetry,
                   [a \in 1..DefaultRetry |-> "ok"], mm)

\* the inverse kinematics of the leg of command k
StepIk(k, step, mom) == LegIk(Legs[GaitCommands[k].leg], step, mom)

\* the number of set_angle calls made when command number stop raised: the
\* failing call itself is the last one, and a leg whose inverse kinematics
\* raised got none
IssuedUntilMut(stop, ikFails) == stop - 1
IssuedUntil(stop, ikFails) == IF ikFails THEN stop - 1 ELSE stop

\* how a gait step ends, from the results iks of the inverse kinematics
\* and the set_angle calls of its ten commands: it ends with the first
\* exception, after the set_angle calls made until then
StepOutcome(iks, calls) ==
    LET bad == {k \in 1..Len(calls) :
                   iks[k] # "ok" \/ calls[k].result # "True"}
        stop == IF bad = {} THEN 0
                ELSE CHOOSE k \in bad : \A j \in bad : k <= j
        ikFails == stop # 0 /\ iks[stop] # "ok"
        n == IF stop = 0 THEN Len(calls) ELSE IssuedUntil(stop, ikFails)
    IN  [result |-> IF stop = 0 THEN "ok"
                    ELSE IF ikFails THEN iks[stop] ELSE calls[stop].result,
         calls |-> SubSeq(calls, 1, n),
         commands |-> [k \in 1..n |->
                          [leg |-> GaitCommands[k].leg,
                           ch |-> calls[k].motor_id.v,
                           angle |-> calls[k].degrees.v,
                           result |-> calls[k].result]]]

\* GaitController.apply_trot_gait_step(trajectory, step_index,
\* trajectory_length) on the cached trajectory scaled by mom
apply_trot_gait_step(step, mom, mm) ==
    CHOOSE r \in
        { StepOutcome(iks, calls) :
            iks \in {[k \in 1..Len(GaitCommands) |->
                         StepIk(k, step, mom).result]},
            calls \in {[k \in 1..Len(GaitCommands) |->
                           StepCall(k, step, mom, mm)]} } : TRUE

\* the calls of a sequence that wrote channel c successfully
WritersOf(calls, c) ==
    {k \in 1..Len(calls) :
        calls[k].motor_id.v = c /\ OkWrites(calls[k].writes) # <<>>}

\* kit.servo after a sequence of set_angle calls
ServoFold(sv, calls) ==
    LET written == {c \in 0..9 : WritersOf(calls, c) # {}}
    IN  [c \in DOMAIN sv \cup written |->
            IF c \in written
            THEN LET k == CHOOSE i \in WritersOf(calls, c) :
                              \A j \in WritersOf(calls, c) : j <= i
                 IN  calls[k].degrees.v
            ELSE sv[c]]

\* the calls of a sequence that recorded an angle for channel c
RecordersOf(calls, c) ==
    {k \in 1..Len(calls) : calls[k].motor_id.v = c /\ calls[k].recorded}

\* metrics.motor_angles after a sequence of set_angle calls
AnglesFold(ma, calls) ==
    LET recorded == {c \in 0..9 : RecordersOf(calls, c) # {}}
    IN  [c \in DOMAIN ma \cup recorded |->
            IF c \in recorded
            THEN LET k == CHOOSE i \in RecordersOf(calls, c) :
                              \A j \in RecordersOf(calls, c) : j <= i
                 IN  calls[k].degrees.v
            ELSE ma[c]]

----------------------------------------------------------------------------
(* The wire format of the network controllers *)

\* the intent components the sender can hold are multiples of 0.5 up to 8
\* in magnitude; a is the magnitude in halves, 2^Log2Floor(a) <= a
Log2Floor(a) == IF a >= 8 THEN 3 ELSE IF a >= 4 THEN 2
                ELSE IF a >= 2 THEN 1 ELSE 0

Abs(n) == IF n < 0 THEN -n ELSE n

\* the IEEE 754 fields of the value t / 10 (t a multiple of 5): sign, the
\* unbiased exponent, and the fraction as frac / 2^Log2Floor(a)
IeeeFields(t) ==
    LET a == Abs(t) \div 5
        e == Log2Floor(a)
    IN  [zero |-> (a = 0), sign |-> IF t < 0 THEN 1 ELSE 0,
         exp |-> e - 1, frac |-> a - 2^e, fracbits |-> e]

\* a float32 as its fields: sign (1 bit), exponent (8 bits), mantissa (23)
float32(t) ==
    LET f == IeeeFields(t)
    IN  IF f.zero THEN [s |-> 0, e |-> 0, m |-> 0]
        ELSE [s |-> f.sign, e |-> f.exp + 127,
              m |-> f.frac * 2^(23 - f.fracbits)]

\* the four bytes of a float32, little-endian
Float32Bytes(v) ==
    << v.m % 256,
       (v.m \div 256) % 256,
       (v.e % 2) * 128 + (v.m \div 65536),
       v.s * 128 + (v.e \div 2) >>

\* the eight bytes of the float64 of value t / 10, little-endian: sign
\* (1 bit), exponent (11 bits), mantissa (52 bits, the low 32 of them zero)
Float64Bytes(t) ==
    LET f == IeeeFields(t)
        e == IF f.zero THEN 0 ELSE f.exp + 1023
        mhi == IF f.zero THEN 0 ELSE f.frac * 2^(20 - f.fracbits)
    IN  << 0, 0, 0, 0,
           mhi % 256,
           (mhi \div 256) % 256,
           (e % 16) * 16 + (mhi \div 65536),
           f.sign * 128 + (e \div 16) >>

RECURSIVE Flatten(_)
Flatten(ss) == IF ss = <<>> THEN <<>> ELSE Head(ss) \o Flatten(Tail(ss))

\* ndarray.tobytes() of a float32 array and of a float64 array
tobytes32(momentum) ==
    Flatten([k \in 1..Len(momentum) |-> Float32Bytes(float32(momentum[k]))])
tobytes64(momentum) ==
    Flatten([k \in 1..Len(momentum) |-> Float64Bytes(momentum[k])])

\* momentum = np.array([0., 0., 1., 0.]): the sender's array is float64,
\* momentum.tobytes() writes eight bytes per field
sender_tobytes(momentum) == tobytes64(momentum)

\* the float32 read from the four little-endian bytes at offset i (0-based)
DecodeFloat32(data, i) ==
    [s |-> data[i + 4] \div 128,
     e |-> (data[i + 4] % 128) * 2 + (data[i + 3] \div 128),
     m |-> (data[i + 3] % 128) * 65536 + data[i + 2] * 256 + data[i + 1]]

\* np.frombuffer(data, dtype=np.float32): ValueError unless the buffer size
\* is a multiple of the element size
FrombufferRaises(data) == Len(data) % 4 # 0
frombuffer(data) ==
    [k \in 1..(Len(data) \div 4) |-> DecodeFloat32(data, 4 * (k - 1))]

\* np.asarray(values, dtype=np.float32)
asarray32(values) == [k \in 1..Len(values) |-> float32(values[k])]

----------------------------------------------------------------------------
(* network_receiver.controller *)

max_consecutive_errors == 10

\* if len(data) < 16
IncompleteMut(data) == FALSE
Incomplete(data) == Len(data) < 16

\* if len(momentum_new) < 4
TooFewFloats(momentum_new) == Len(momentum_new) < 4

\* except socket.error / except Exception: count the error, raise
\* ControllerError from the max_consecutive_errors-th on
RxCountErrorMut(error_count, momentum) ==
    [error_count |-> IF error_count + 1 >= max_consecutive_errors
                     THEN 0 ELSE error_count + 1,
     result |-> IF error_count + 1 >= max_consecutive_errors
                THEN "ControllerError" ELSE "return",
     momentum |-> momentum]
RxCountError(error_count, momentum) ==
    [error_count |-> error_count + 1,
     result |-> IF error_count + 1 >= max_consecutive_errors
                THEN "ControllerError" ELSE "return",
     momentum |-> momentum]

\* one call controller(momentum) with controller._error_count = error_count
\* when s.recvfrom gives recv: a datagram, socket.timeout, socket.error or
\* another exception
rx_controller(error_count, momentum, recv) ==
    IF recv.kind = "timeout"
    THEN [error_count |-> 0, result |-> "return", momentum |-> momentum]
    ELSE IF recv.kind \in {"socket.error", "Exception"}
    THEN RxCountError(error_count, momentum)
    ELSE IF Len(recv.data) = 0
    THEN [error_count |-> error_count, result |-> "return",
          momentum |-> momentum]
    ELSE IF Incomplete(recv.data)
    THEN [error_count |-> error_count, result |-> "return",
          momentum |-> momentum]
    ELSE IF FrombufferRaises(recv.data)
    THEN RxCountError(error_count, momentum)
    ELSE LET momentum_new == frombuffer(recv.data)
         IN  IF TooFewFloats(momentum_new)
             THEN [error_count |-> error_count, result |-> "return",
                   momentum |-> momentum]
             ELSE [error_count |-> 0, result |-> "return",
                   momentum |-> SubSeq(momentum_new, 1, 4)]

----------------------------------------------------------------------------
(* network_sender_keyboard.controller *)

Min(a, b) == IF a < b THEN a ELSE b
Max(a, b) == IF a > b THEN a ELSE b

\* if return_to_zero and not moved: one component moves towards zero
TowardsZero(v, accel) ==
    IF v > 0 THEN v - accel ELSE IF v < 0 THEN v + accel ELSE v

\* one pass of the sender's loop with the keys pressed: the momentum after
\* it, whether a datagram is sent, and whether the loop closes
tx_loop(momentum, keys, accel, bound, return_to_zero) ==
    LET f1 == IF "w" \in keys THEN Min(momentum[1] + accel, bound)
              ELSE momentum[1]
        f2 == IF "s" \in keys THEN Max(f1 - accel, -bound) ELSE f1
        l1 == IF "a" \in keys THEN Max(momentum[2] - accel, -bound)
              ELSE momentum[2]
        l2 == IF "d" \in keys THEN Min(l1 + accel, bound) ELSE l1
        q == IF "p" \in keys THEN 10 ELSE momentum[4]
        moved == keys # {}
        rtz == return_to_zero /\ ~moved
    IN  [momentum |-> << IF rtz THEN TowardsZero(f2, accel) ELSE f2,
                         IF rtz THEN TowardsZero(l2, accel) ELSE l2,
                         momentum[3], q >>,
         moved |-> moved \/ rtz,
         close |-> "p" \in keys]

----------------------------------------------------------------------------
(* local_keyboard_controller.controller; accel, bound and the intent      *)
(* components in 1/10000                                                   *)

\* validate_positive_number: isinstance(value, (int, float)) and
\* value >= min_value
ValidatePositiveMut(value, min_value) == value.t \in {"int", "float"}
validate_positive_number(value, min_value) ==
    value.t \in {"int", "float"} /\ value.v >= min_value

\* the parameter checks of controller: accel >= 0.0001, accel <= 1,
\* bound >= 0
KbParamsValid(accel, bound) ==
    /\ validate_positive_number(accel, 1)
    /\ ~(accel.v > 10000)
    /\ validate_positive_number(bound, 0)

\* min(momentum[i] + accel, bound) and max(momentum[i] - accel, -bound)
ClampUpMut(v, accel, bound) == v + accel
ClampUp(v, accel, bound) == Min(v + accel, bound)
ClampDown(v, accel, bound) == Max(v - accel, -bound)

\* the body of the try block: keyboard.is_pressed is asked for 'w', 's',
\* 'a', 'd' in turn; fail_at = k makes the k-th of these calls raise
\* (fail_at = 0: none raises), which the except clause logs
kb_keysMut(momentum, accel, bound, keys, fail_at) ==
    <<momentum[1], momentum[2], momentum[3],
      IF fail_at # 0 THEN 10000 ELSE momentum[4]>>
kb_keys(momentum, accel, bound, keys, fail_at) ==
    LET read(k) == fail_at = 0 \/ k < fail_at
        f1 == IF read(1) /\ "w" \in keys
              THEN ClampUp(momentum[1], accel, bound) ELSE momentum[1]
        f2 == IF read(2) /\ "s" \in keys
              THEN ClampDown(f1, accel, bound) ELSE f1
        l1 == IF read(3) /\ "a" \in keys
              THEN ClampDown(momentum[2], accel, bound) ELSE momentum[2]
        l2 == IF read(4) /\ "d" \in keys
              THEN ClampUp(l1, accel, bound) ELSE l1
    IN  <<f2, l2, momentum[3], momentum[4]>>

\* controller(momentum, accel, bound): the result, the momentum array
\* afterwards, and the number of keyboard.is_pressed calls made
kb_controller(momentum, accel, bound, keys, fail_at) ==
    IF ~KbParamsValid(accel, bound)
    THEN [result |-> "ValidationError", momentum |-> momentum,
          keys_read |-> 0]
    ELSE [result |-> "return",
          momentum |-> kb_keys(momentum, accel.v, bound.v, keys, fail_at),
          keys_read |-> IF fail_at = 0 THEN 4 ELSE fail_at]

----------------------------------------------------------------------------
(* State *)

VARIABLES
    mode,          \* "main": the process runs main(); "api": direct calls
    pc,            \* where main() is
    metrics,       \* the metrics collaborator handed to the ServoController
    servo,         \* kit.servo[ch].angle of the channels written so far
    motor_angles,  \* metrics.motor_angles
    error_count,   \* metrics.error_count
    alerts,        \* number of alerts sent to the alert system
    lastCall,      \* the most recent set_angle call: inputs, writes, result
    nCalls,        \* number of set_angle calls so far
    calQueue,      \* calibration entries servo_controller.calibrate has left
    calOk,         \* the success flag of servo_controller.calibrate
    calLog,        \* the set_angle calls calibrate made: channel and result
    momentum,      \* move: the intent vector [forward, lateral, vertical, quit]
    step_index,    \* move: step_index
    cycle_count,   \* move: cycle_count
    cmd,           \* set_angle calls done in the gait step in progress
    stepLog,       \* the set_angle calls of the current tick's gait step
    trajectory,    \* move: the working trajectory of the current tick
    polls,         \* number of calls of the intent source
    moveCalls,     \* number of set_angle calls made by gait steps
    final_logged,  \* number of _log_final_metrics calls
    raised,        \* the exception move raised to main ("none" if none)
    interrupted,   \* move caught a KeyboardInterrupt
    exit_code,     \* sys.exit code of main ("none" while running)
    lastStep,      \* the most recent direct call of apply_trot_gait_step
    lastLeg,       \* the most recent direct call of Quadruped.leg_position
    solver,        \* the fields of an InverseKinematics called directly
    firstIk,       \* the first direct call of calculate on that solver
    lastIk,        \* the most recent direct call of calculate on it
    nIk,           \* number of direct calls of calculate so far
    tg,            \* the TrajectoryGenerator: step_resolution and its cache
    tgEvaluated,   \* number of times generate evaluated the curves
    tgFirst,       \* what the first direct call of generate returned
    tgLast,        \* what the most recent direct call of generate returned
    nTg,           \* number of direct calls of generate so far
    rx,            \* network receiver: controller._error_count and the
                   \* momentum its caller holds
    rxLast,        \* the most recent call of the receiver
    rxRun,         \* number of calls in a row, up to the most recent, that
                   \* ended in a transport or decoding error
    nRx,           \* number of calls of the receiver fed by the sender
    tx,            \* network sender: momentum, close, its parameters and
                   \* the number of passes of its loop
    wire,          \* datagrams sent and not yet received
    kb,            \* keyboard controller: the momentum array of its caller
                   \* and the accel and bound it is called with
    kbLast,        \* the most recent call of the keyboard controller
    nKb,           \* number of calls of the keyboard controller so far
    hist           \* what happened to move so far: every intent polled was
                   \* the default (or the quit after it), no hardware write
                   \* failed, the failure a component raised, where
                   \* the external abort arrived

vars == <<mode, pc, metrics, servo, motor_angles, error_count, alerts,
          lastCall, nCalls, calQueue, calOk, momentum, step_index,
          cycle_count, cmd, polls, moveCalls, final_logged, raised,
          interrupted, exit_code, hist, calLog, stepLog, lastStep, solver,
          firstIk, lastIk, nIk, tg, tgEvaluated, tgFirst, tgLast, nTg,
          rx, rxLast, rxRun, nRx, tx, wire, kb, kbLast, nKb, trajectory,
          lastLeg>>

servoVars == <<servo, motor_angles, alerts, lastCall, nCalls>>
calVars == <<calQueue, calOk, calLog>>
directVars == <<lastStep, solver, firstIk, lastIk, nIk, lastLeg>>
trajCalls == <<tgFirst, tgLast, nTg>>
trajVars == <<tg, tgEvaluated, trajCalls>>
rxVars == <<rx, rxLast, rxRun, nRx>>
netVars == <<rxVars, tx, wire>>
kbVars == <<kb, kbLast, nKb>>
ctlVars == <<netVars, kbVars>>
moveVars == <<momentum, step_index, cycle_count, cmd, polls, moveCalls,
              final_logged, raised, interrupted, error_count, hist, stepLog,
              trajectory>>

----------------------------------------------------------------------------
(* Inputs *)

\* momentum = np.asarray([0.0, 0.0, 1.0, 0.0]) at the start of move
DefaultMomentum == <<0, 0, 10, 0>>

\* intent vectors the intent source returns
Intents == {
    DefaultMomentum,
    <<0, 0, 10, 10>>,     \* quit
    <<0, 0, 10, 5>>,      \* quit field exactly 0.5
    <<0, 0, -10, 0>>,     \* vertical scale -1
    <<10, 0, -10, 0>>,    \* forward 1, vertical scale -1
    <<0, 10, -10, 0>>,    \* lateral 1, vertical scale -1
    <<0, 0, -20, 0>> }    \* vertical scale -2

\* Quadruped._default_calibration, names resolved by Motor[motor_name].value
DefaultCalibration == <<
    <<Motor.FR_SHOULDER, 60>>, <<Motor.FR_ELBOW, 90>>, <<Motor.FR_HIP, 90>>,
    <<Motor.FL_SHOULDER, 120>>, <<Motor.FL_ELBOW, 90>>, <<Motor.FL_HIP, 90>>,
    <<Motor.BR_SHOULDER, 60>>, <<Motor.BR_ELBOW, 90>>,
    <<Motor.BL_SHOULDER, 120>>, <<Motor.BL_ELBOW, 90>> >>

\* calibration maps of the configuration: none given (the default), empty,
\* and one with an angle out of range
Calibrations == { DefaultCalibration, <<>>,
                  << <<Motor.FR_SHOULDER, 60>>, <<Motor.FR_ELBOW, 200>> >> }

\* arguments of direct set_angle calls
ApiMotorIds == {IntVal(-1), IntVal(0), IntVal(9), IntVal(10), FloatVal(0)}
ApiDegrees == {IntVal(-1), IntVal(0), FloatVal(90), FloatVal(180),
               IntVal(181), StrVal}
ApiArgs == {<<m, FloatVal(90)>> : m \in ApiMotorIds}
               \cup {<<IntVal(0), d>> : d \in ApiDegrees}

\* intent vectors a direct call of apply_trot_gait_step is scaled by
GaitIntents == {m \in Intents : m[4] = 0}

\* arguments of direct calls of calculate: x, y, z in 1/100 cm, one varied
\* at a time around (5, 15, 0), and the inputs of the repository's tests
IkPoints ==
    {<<x, FloatVal(1500), IntVal(0)>> :
        x \in {IntVal(0), IntVal(500), FloatVal(5000), StrVal}}
    \cup {<<IntVal(500), y, IntVal(0)>> :
        y \in {IntVal(-1500), FloatVal(9), FloatVal(10), IntVal(1500),
               FloatVal(1988), FloatVal(1989), IntVal(3200), StrVal}}
    \cup {<<IntVal(500), FloatVal(1500), z>> :
        z \in {IntVal(0), FloatVal(100), FloatVal(-100), StrVal}}
    \cup {<<IntVal(5000), IntVal(-1500), IntVal(0)>>}

\* validate_leg_id: isinstance(leg_id, str) and leg_id in valid_ids
validate_leg_id(leg_id) ==
    leg_id.t = "str" /\ leg_id.name \in {"FL", "FR", "BL", "BR"}

\* leg_mapping[leg_id]
leg_mapping(leg_id) == CHOOSE leg \in {Legs[l] : l \in 1..Len(Legs)} : leg.name = leg_id.name

\* GaitController.apply_trajectory_to_leg: calculate, then set_angle for the
\* shoulder, the elbow, and the hip if hip_motor is not None; the first
\* exception ends it.  plans[j] is the hardware during the j-th set_angle.
apply_trajectory_to_leg(shoulder_motor, elbow_motor, x, y, z, hip_motor, right, plans, mm) ==
    CHOOSE r \in
      {IF ik.result # "ok"
       THEN [result |-> ik.result, ik |-> ik.result, calls |-> <<>>]
       ELSE CHOOSE q \in
         {IF c1.result # "True"
          THEN [result |-> c1.result, ik |-> "ok", calls |-> <<c1>>]
          ELSE IF c2.result # "True"
          THEN [result |-> c2.result, ik |-> "ok", calls |-> <<c1, c2>>]
          ELSE IF hip_motor = NoMotor
          THEN [result |-> "True", ik |-> "ok", calls |-> <<c1, c2>>]
          ELSE [result |-> c3.result, ik |-> "ok",
                calls |-> <<c1, c2, c3>>] :
              c1 \in {CallRecord(IntVal(shoulder_motor), ik.shoulder,
                                 DefaultRetry, plans[1], mm)},
              c2 \in {CallRecord(IntVal(elbow_motor), ik.elbow,
                                 DefaultRetry, plans[2], mm)},
              c3 \in {CallRecord(IntVal(hip_motor), ik.hip,
                                 DefaultRetry, plans[3], mm)}} : TRUE :
           ik \in {calculate(x, y, z, right)}} : TRUE

\* except Exception: return False
LegReturnMut(result) == "True"
LegReturn(result) == IF result = "True" THEN "True" ELSE "False"

\* Quadruped.leg_position(leg_id, x, y, z): what it returns or raises, and
\* the set_angle calls it made
leg_position(leg_id, x, y, z, plans, mm) ==
    IF ~(validate_leg_id(leg_id) /\ validate_coordinate(x)
            /\ validate_coordinate(y) /\ validate_coordinate(z))
    THEN [result |-> "ValidationError", ik |-> "none", calls |-> <<>>]
    ELSE CHOOSE r \in
           {[result |-> LegReturn(a.result), ik |-> a.ik, calls |-> a.calls] :
               a \in {apply_trajectory_to_leg(
                          leg.shoulder, leg.elbow, x, y, z, leg.hip,
                          leg.right, plans, mm) :
                              leg \in {leg_mapping(leg_id)}}} : TRUE

\* leg_id arguments of direct calls of leg_position: a str with a name, or
\* a value of another type
LegIds == {[t |-> "str", name |-> n] : n \in {"FR", "FL", "BR", "BL", "XX"}}
          \cup {[t |-> "int", name |-> "0"]}

\* the points of direct calls of leg_position
LegPoints == {
    <<IntVal(0), IntVal(1500), FloatVal(0)>>,
    <<IntVal(500), FloatVal(1500), FloatVal(100)>>,
    <<IntVal(500), IntVal(-1500), FloatVal(0)>>,
    <<IntVal(500), IntVal(3200), FloatVal(0)>>,
    <<StrVal, IntVal(1500), FloatVal(0)>> }

NoLeg == [leg_id |-> [t |-> "int", name |-> "0"], x |-> StrVal, y |-> StrVal, z |-> StrVal,
          result |-> "none", ik |-> "none", calls |-> <<>>]

NoStep == [step_index |-> 0, momentum |-> DefaultMomentum, index_1 |-> 0,
           index_2 |-> 0, targets |-> <<>>, result |-> "none",
           commands |-> <<>>]

\* step resolutions of a TrajectoryGenerator built directly
Resolutions == {2, 3, step_resolution}

NoTrajectory == [trajectory |-> generate(0), length |-> 0]

\* what the socket stub of a receiver under test gives to s.recvfrom:
\* the datagram of the repository's test, a quit, 8 zero bytes (the
\* test's incomplete datagram), an empty one, 10 bytes, 18 bytes (no whole
\* number of floats), 20 bytes (five floats)
StubDatagrams == {
    tobytes32(<<10, 5, 10, 0>>),
    tobytes32(<<0, 0, 10, 10>>),
    <<0, 0, 0, 0, 0, 0, 0, 0>>,
    <<>>,
    <<0, 0, 0, 0, 0, 0, 0, 0, 0, 0>>,
    tobytes32(<<10, 5, 10, 0>>) \o <<0, 0>>,
    tobytes32(<<5, 0, 10, 0, 10>>) }

StubRecvs ==
    {[kind |-> k, data |-> <<>>, from |-> "stub", m |-> <<>>] :
        k \in {"timeout", "socket.error", "Exception"}}
    \cup {[kind |-> "data", data |-> d, from |-> "stub", m |-> <<>>] :
             d \in StubDatagrams}

\* recvfrom raised, or the datagram holds no whole number of floats
IsError(recv) ==
    \/ recv.kind \in {"socket.error", "Exception"}
    \/ recv.kind = "data" /\ Len(recv.data) >= 16 /\ Len(recv.data) % 4 # 0

\* the momentum the caller of the receiver starts with
RxMomenta == {asarray32(<<0, 0, 10, 0>>), asarray32(<<10, 5, 10, 0>>)}

\* keys held down during one pass of the sender's loop
TxKeys == {{}, {"w"}, {"s"}, {"a"}, {"d"}, {"w", "s"}, {"w", "d"}, {"p"},
           {"w", "p"}}

\* accel and bound of the calls of a keyboard controller: accepted pairs
\* (0.5 and 1; 1 and 4; the smallest accel 0.0001; bound 0), and pairs
\* with one parameter out of range or not a number
KbParams ==
    { <<FloatVal(5000), FloatVal(10000)>>, <<IntVal(10000), IntVal(40000)>>,
      <<FloatVal(1), IntVal(40000)>>, <<FloatVal(5000), IntVal(0)>> }
    \cup { <<a, IntVal(40000)>> :
              a \in {FloatVal(0), IntVal(-10000), FloatVal(10001), StrVal} }
    \cup { <<FloatVal(1000), b>> :
              b \in {IntVal(-10000), FloatVal(-1), StrVal} }

\* the forward and lateral components a caller starts with
KbStarts == {<<0, 0>>, <<1, -1>>, <<-1, 1>>}

\* keys held down during one call
KbKeys == {{}, {"w"}, {"s"}, {"a"}, {"d"}, {"w", "s"}, {"a", "d"},
           {"w", "d"}}

\* which keyboard.is_pressed call raises (0: none)
KbFailures == {0, 2}

NoKbCall == [keys |-> {}, fail_at |-> 0, prev |-> <<>>, result |-> "none",
             returned |-> <<>>, keys_read |-> 0]

NoKeyboard == [momentum |-> <<0, 0, 10000, 0>>, accel |-> FloatVal(100),
               bound |-> IntVal(40000)]

NoRecv == [kind |-> "none", data |-> <<>>, from |-> "none", m |-> <<>>,
           prev |-> <<>>, result |-> "none", returned |-> <<>>]

NoIk == [x |-> StrVal, y |-> StrVal, z |-> StrVal, right |-> TRUE,
         out |-> IkError("none")]

----------------------------------------------------------------------------
(* Initial states *)

InitCommon ==
    /\ servo = <<>>
    /\ motor_angles = <<>>
    /\ error_count = 0
    /\ alerts = 0
    /\ lastCall = NoCall
    /\ nCalls = 0
    /\ calQueue = <<>>
    /\ calOk = TRUE
    /\ calLog = <<>>
    /\ momentum = DefaultMomentum
    /\ step_index = 0
    /\ cycle_count = 0
    /\ cmd = 0
    /\ stepLog = <<>>
    /\ trajectory = generate(0)
    /\ polls = 0
    /\ moveCalls = 0
    /\ final_logged = 0
    /\ raised = "none"
    /\ interrupted = FALSE
    /\ exit_code = "none"
    /\ hist = [defaults |-> TRUE, hwok |-> TRUE, failure |-> "none",
               abort |-> "none"]
    /\ lastStep = NoStep
    /\ lastLeg = NoLeg
    /\ solver = Solver
    /\ firstIk = NoIk
    /\ lastIk = NoIk
    /\ nIk = 0
    /\ tgEvaluated = 0
    /\ tgFirst = NoTrajectory
    /\ tgLast = NoTrajectory
    /\ nTg = 0
    /\ rxLast = NoRecv
    /\ rxRun = 0
    /\ nRx = 0
    /\ wire = <<>>
    /\ kbLast = NoKbCall
    /\ nKb = 0

NoSender == [momentum |-> DefaultMomentum, close |-> TRUE, accel |-> 5,
             bound |-> 10, return_to_zero |-> FALSE, loops |-> 0]

\* no network controller in use
InitNoController ==
    /\ rx = [error_count |-> 0, momentum |-> asarray32(DefaultMomentum)]
    /\ tx = NoSender
    /\ kb = NoKeyboard

\* main() about to build the Quadruped: Quadruped.__init__ hands its own
\* RobotMetrics to the ServoController
InitMain(ms) ==
    /\ mode = "main"
    /\ pc = "uninit"
    /\ metrics \in ms
    /\ tg = TrajectoryGenerator(step_resolution)
    /\ InitNoController
    /\ InitCommon

\* a ServoController built directly: ServoController(config, metrics=None)
InitApi(ms) ==
    /\ mode = "api"
    /\ pc = "api"
    /\ metrics \in ms
    /\ tg = TrajectoryGenerator(step_resolution)
    /\ InitNoController
    /\ InitCommon

\* a GaitController built directly on a ServoController and a solver
InitGaitApi(ms) ==
    /\ mode = "gaitapi"
    /\ pc = "gaitapi"
    /\ metrics \in ms
    /\ tg = TrajectoryGenerator(step_resolution)
    /\ InitNoController
    /\ InitCommon

\* a Quadruped built on working hardware, before calibrate
InitLeg(ms) ==
    /\ mode = "legapi"
    /\ pc = "legapi"
    /\ metrics \in ms
    /\ tg = TrajectoryGenerator(step_resolution)
    /\ InitNoController
    /\ InitCommon

\* an InverseKinematics built directly from the default configuration
InitIk ==
    /\ mode = "ik"
    /\ pc = "ik"
    /\ metrics = NoMetrics
    /\ tg = TrajectoryGenerator(step_resolution)
    /\ InitNoController
    /\ InitCommon

\* a TrajectoryGenerator built directly: TrajectoryGenerator(n)
InitTraj ==
    /\ mode = "traj"
    /\ pc = "traj"
    /\ metrics = NoMetrics
    /\ \E n \in Resolutions : tg = TrajectoryGenerator(n)
    /\ InitNoController
    /\ InitCommon

\* network_receiver.controller under a socket stub, before its first call
InitRx ==
    /\ mode = "rx"
    /\ pc = "rx"
    /\ metrics = NoMetrics
    /\ tg = TrajectoryGenerator(step_resolution)
    /\ \E m \in RxMomenta : rx = [error_count |-> 0, momentum |-> m]
    /\ tx = NoSender
    /\ kb = NoKeyboard
    /\ InitCommon

\* a network sender that passed its parameter checks and is about to enter
\* its loop (accel 0.5, bound 1), and a receiver on the same socket pair
InitNet ==
    /\ mode = "net"
    /\ pc = "net"
    /\ metrics = NoMetrics
    /\ tg = TrajectoryGenerator(step_resolution)
    /\ rx = [error_count |-> 0, momentum |-> asarray32(DefaultMomentum)]
    /\ \E rtz \in BOOLEAN :
          tx = [momentum |-> DefaultMomentum, close |-> FALSE, accel |-> 5,
                bound |-> 10, return_to_zero |-> rtz, loops |-> 0]
    /\ kb = NoKeyboard
    /\ InitCommon

\* a caller of local_keyboard_controller.controller with its momentum
\* array, forward and lateral at 0 or at the bound, and the accel and
\* bound it passes
InitKbd ==
    /\ mode = "kbd"
    /\ pc = "kbd"
    /\ metrics = NoMetrics
    /\ tg = TrajectoryGenerator(step_resolution)
    /\ rx = [error_count |-> 0, momentum |-> asarray32(DefaultMomentum)]
    /\ tx = NoSender
    /\ \E p \in KbParams, st \in KbStarts :
          kb = [momentum |-> <<st[1] * Abs(p[2].v), st[2] * Abs(p[2].v),
                               10000, 0>>,
                accel |-> p[1], bound |-> p[2]]
    /\ InitCommon

Init ==
    \/ InitMain({WorkingMetrics})
    \/ InitApi({NoMetrics, WorkingMetrics})
    \/ InitGaitApi({NoMetrics, WorkingMetrics})
    \/ InitLeg({WorkingMetrics})
    \/ InitIk
    \/ InitTraj
    \/ InitRx
    \/ InitNet
    \/ InitKbd

InitFaulty ==
    \/ InitMain({WorkingMetrics} \cup FaultyMetrics)
    \/ InitApi({NoMetrics, WorkingMetrics} \cup FaultyMetrics)
    \/ InitGaitApi({NoMetrics, WorkingMetrics} \cup FaultyMetrics)
    \/ InitLeg({WorkingMetrics} \cup FaultyMetrics)
    \/ InitIk
    \/ InitTraj
    \/ InitRx
    \/ InitNet
    \/ InitKbd

----------------------------------------------------------------------------
(* Actions *)

\* the effect of one set_angle call on the servo port and its observers
ApplyCall(call) ==
    /\ servo' = ServoAfter(servo, call.writes)
    /\ motor_angles' = AnglesAfter(motor_angles, call)
    /\ alerts' = alerts + call.alerts
    /\ lastCall' = call
    /\ nCalls' = nCalls + 1

\* no hardware write of the call failed or was aborted
HwClean(call) ==
    /\ call.result # "KeyboardInterrupt"
    /\ \A k \in 1..Len(call.writes) : call.writes[k].ok

\* main: robot = Quadruped(config)
Initialise ==
    /\ mode = "main"
    /\ pc = "uninit"
    /\ pc' = "calibrating"
    /\ calQueue' \in Calibrations
    /\ calOk' = TRUE
    /\ calLog' = <<>>
    /\ UNCHANGED <<directVars, trajVars, ctlVars>>
    /\ UNCHANGED <<mode, metrics, servoVars, moveVars, exit_code>>

\* the success flag after one pass: success stays True only if set_angle
\* returned; the except branch sets success = False
CalSuccessMut(ok, result) == result = "True"
CalSuccess(ok, result) == ok /\ result = "True"

\* servo_controller.calibrate: one pass of its loop.  A ValidationError or
\* ServoError is caught (except Exception) and clears the success flag; a
\* KeyboardInterrupt leaves calibrate and main exits with code 0
CalibrateStep ==
    /\ mode = "main"
    /\ pc = "calibrating"
    /\ calQueue # <<>>
    /\ \E plan \in HwPlans(DefaultRetry, metrics) :
       LET e == Head(calQueue)
           call == CallRecord(IntVal(e[1]), IntVal(e[2]), DefaultRetry, plan,
                              metrics)
       IN  /\ ApplyCall(call)
           /\ calQueue' = Tail(calQueue)
           /\ calOk' = CalSuccess(calOk, call.result)
           /\ calLog' = Append(calLog, [ch |-> e[1], result |-> call.result])
           /\ pc' = IF call.result = "KeyboardInterrupt" THEN "exited"
                    ELSE "calibrating"
           /\ exit_code' = IF call.result = "KeyboardInterrupt" THEN "0"
                           ELSE exit_code
           /\ hist' = [hist EXCEPT
                  !.abort = IF call.result = "KeyboardInterrupt" THEN "main"
                            ELSE @]
    /\ UNCHANGED <<directVars, trajVars, ctlVars>>
    /\ UNCHANGED <<mode, metrics, momentum, step_index, cycle_count, cmd,
                   polls, moveCalls, final_logged, raised, interrupted,
                   error_count, stepLog, trajectory>>

\* if not robot.calibrate(): sys.exit(1)
MayMoveMut(ok) == TRUE
MayMove(ok) == ok

\* main after robot.calibrate() returned: exit, or enter robot.move(controller)
CalibrateReturn ==
    /\ mode = "main"
    /\ pc = "calibrating"
    /\ calQueue = <<>>
    /\ IF MayMove(calOk)
       THEN /\ pc' = "running"
            /\ momentum' = DefaultMomentum
            /\ step_index' = 0
            /\ cycle_count' = 0
            /\ cmd' = 0
            /\ exit_code' = exit_code
            /\ \E g \in {generate_cached(tg)} :
                  /\ tg' = g.self
                  /\ tgEvaluated' = tgEvaluated + (IF g.evaluated THEN 1
                                                   ELSE 0)
       ELSE /\ pc' = "exited"
            /\ exit_code' = "1"
            /\ UNCHANGED <<momentum, step_index, cycle_count, cmd, tg,
                           tgEvaluated>>
    /\ UNCHANGED <<directVars, trajCalls, ctlVars>>
    /\ UNCHANGED <<mode, metrics, servoVars, calVars, polls, moveCalls,
                   final_logged, raised, interrupted, error_count, hist,
                   stepLog, trajectory>>

\* if momentum[3] > 0.5
QuitSetMut(m) == m[4] > 10
QuitSet(m) == m[4] > 5

\* how a tick leaves the loop body of move, and what the handlers of move do:
\*   "go"         the loop goes on at nextpc
\*   "break"      quit: move returns
\*   "interrupt"  except KeyboardInterrupt: log final metrics, return
\*   "raise"      except Exception: record_error, log final metrics, raise
move_exit_swallow(how, e, nextpc) ==
    [pc |-> IF how \in {"break", "interrupt"} THEN "stopped" ELSE "running",
     error_count |-> error_count, final_logged |-> final_logged,
     raised |-> raised, interrupted |-> (interrupted \/ how = "interrupt"),
     exit_code |-> IF how \in {"break", "interrupt"} THEN "0" ELSE exit_code]
move_exit_count(how, e, nextpc) ==
    [pc |-> IF how = "go" THEN nextpc
            ELSE IF how = "raise" THEN "error_stopped" ELSE "stopped",
     error_count |-> IF how = "go" THEN error_count ELSE error_count + 1,
     final_logged |-> IF how \in {"raise", "interrupt"} THEN final_logged + 1
                      ELSE final_logged,
     raised |-> IF how = "raise" THEN e ELSE raised,
     interrupted |-> (interrupted \/ how = "interrupt"),
     exit_code |-> IF how = "go" THEN exit_code
                   ELSE IF how = "raise" THEN "1" ELSE "0"]
move_exit(how, e, nextpc) ==
    [pc |-> IF how = "go" THEN nextpc
            ELSE IF how = "raise" THEN "error_stopped" ELSE "stopped",
     error_count |-> IF how = "raise" THEN error_count + 1 ELSE error_count,
     final_logged |-> IF how \in {"raise", "interrupt"} THEN final_logged + 1
                      ELSE final_logged,
     raised |-> IF how = "raise" THEN e ELSE raised,
     interrupted |-> (interrupted \/ how = "interrupt"),
     exit_code |-> IF how = "go" THEN exit_code
                   ELSE IF how = "raise" THEN "1" ELSE "0"]

SetExit(r) ==
    /\ pc' = r.pc
    /\ error_count' = r.error_count
    /\ final_logged' = r.final_logged
    /\ raised' = r.raised
    /\ interrupted' = r.interrupted
    /\ exit_code' = r.exit_code

\* the part of a tick from the poll to the start of the gait step, for an
\* intent source that returns m: record_controller_status, the quit test,
\* the scaling, record_movement
AfterPoll(m, mm) ==
    IF MetricsRaises(mm, "record_controller_status") THEN "raise"
    ELSE IF QuitSet(m) THEN "break"
    ELSE IF MetricsRaises(mm, "record_movement") THEN "raise"
    ELSE "go"

\* move: momentum = controller(momentum) returns m
Poll ==
    /\ mode = "main"
    /\ pc = "running"
    /\ \E m \in Intents :
        /\ QuitSet(m) \/ cycle_count < MaxTicks
        /\ momentum' = m
        /\ hist' = [hist EXCEPT
               !.defaults = @ /\ m \in {DefaultMomentum, <<0, 0, 10, 10>>},
               !.failure = IF AfterPoll(m, metrics) = "raise"
                           THEN "MetricsError" ELSE @]
        /\ SetExit(move_exit(AfterPoll(m, metrics), "MetricsError", "gait"))
    /\ polls' = polls + 1
    /\ cmd' = 0
    /\ stepLog' = <<>>
    /\ tg' = IF AfterPoll(momentum', metrics) = "go"
             THEN CacheAfterScaling(tg, momentum') ELSE tg
    /\ trajectory' =
          IF MetricsRaises(metrics, "record_controller_status")
                \/ QuitSet(momentum')
          THEN trajectory
          ELSE ScaleTrajectory(tg.cached_trajectory.v, momentum')
    /\ UNCHANGED <<directVars, tgEvaluated, trajCalls, ctlVars>>
    /\ UNCHANGED <<mode, metrics, servoVars, calVars, step_index,
                   cycle_count, moveCalls>>

\* move: controller(momentum) raises ControllerError
PollRaises ==
    /\ mode = "main"
    /\ pc = "running"
    /\ polls' = polls + 1
    /\ hist' = [hist EXCEPT !.defaults = FALSE, !.failure = "ControllerError"]
    /\ SetExit(move_exit("raise", "ControllerError", "running"))
    /\ UNCHANGED <<directVars, trajVars, ctlVars>>
    /\ UNCHANGED <<mode, metrics, servoVars, calVars, momentum, step_index,
                   cycle_count, cmd, moveCalls, stepLog, trajectory>>

\* the external abort arrives between two calls: inside the loop of move it
\* is caught by move; during calibration main exits with code 0
Interrupt ==
    /\ mode = "main"
    /\ pc \in {"calibrating", "running", "gait"}
    /\ IF pc = "calibrating"
       THEN /\ pc' = "exited"
            /\ exit_code' = "0"
            /\ hist' = [hist EXCEPT !.abort = "main"]
            /\ UNCHANGED <<error_count, final_logged, raised, interrupted>>
       ELSE /\ hist' = [hist EXCEPT !.abort = "move"]
            /\ SetExit(move_exit("interrupt", "KeyboardInterrupt", "stopped"))
    /\ UNCHANGED <<directVars, trajVars, ctlVars>>
    /\ UNCHANGED <<mode, metrics, servoVars, calVars, momentum, step_index,
                   cycle_count, cmd, polls, moveCalls, stepLog,
                   trajectory>>

\* how the loop goes on after the set_angle call number i of a gait step:
\* after the last one step_index and cycle_count are incremented and
\* record_performance('movement_cycle', ...) is called
AfterCommandMut(call, i, mm) ==
    IF call.result = "KeyboardInterrupt" THEN "interrupt"
    ELSE IF i = Len(GaitCommands) /\ MetricsRaises(mm, "record_performance")
    THEN "raise"
    ELSE "go"
AfterCommand(call, i, mm) ==
    IF call.result = "KeyboardInterrupt" THEN "interrupt"
    ELSE IF call.result # "True" THEN "raise"
    ELSE IF i = Len(GaitCommands) /\ MetricsRaises(mm, "record_performance")
    THEN "raise"
    ELSE "go"

\* apply_trot_gait_step: the position in the for loops over legs and joints
\* after the call of command i (a call that raises leaves the loops)
CmdAfterMut(position, call, i) == position
CmdAfter(position, call, i) ==
    IF call.result = "True" THEN i % Len(GaitCommands) ELSE position

\* move: step_index += 1 after apply_trot_gait_step has returned
StepIndexAfterMut(index, done) == index + 1
StepIndexAfter(index, done) == IF done THEN index + 1 ELSE index

\* move, inside apply_trot_gait_step: the next set_angle call of the step,
\* with the inverse kinematics of its leg before the leg's first call
GaitCommand ==
    /\ mode = "main"
    /\ pc = "gait"
    /\ \E i \in {cmd + 1} :
       \E c \in {GaitCommands[i]} :
       \E leg \in {Legs[c.leg]} :
       \E ik \in {LegIk(leg, step_index, momentum)} :
           IF ik.result # "ok"
           THEN /\ c.first
                /\ hist' = [hist EXCEPT !.failure = ik.result]
                /\ SetExit(move_exit("raise", ik.result, "gait"))
                /\ UNCHANGED <<servoVars, cmd, step_index, cycle_count,
                               moveCalls, stepLog>>
           ELSE \E plan \in HwPlans(DefaultRetry, metrics) :
                \E call \in {CallRecord(IntVal(JointMotor(leg, c.joint)),
                                        JointAngle(ik, c.joint), DefaultRetry,
                                        plan, metrics)} :
                LET how == AfterCommand(call, i, metrics)
                    done == call.result = "True" /\ i = Len(GaitCommands)
                    e == IF call.result = "True" THEN "MetricsError"
                         ELSE call.result
                IN  /\ ApplyCall(call)
                    /\ moveCalls' = moveCalls + 1
                    /\ stepLog' = Append(stepLog,
                           [leg |-> c.leg, ch |-> call.motor_id.v,
                            angle |-> call.degrees.v, result |-> call.result])
                    /\ hist' = [hist EXCEPT
                           !.hwok = @ /\ HwClean(call),
                           !.failure = IF how = "raise" THEN e ELSE @,
                           !.abort = IF call.result = "KeyboardInterrupt"
                                     THEN "move" ELSE @]
                    /\ cmd' = CmdAfter(cmd, call, i)
                    /\ step_index' = StepIndexAfter(step_index, done)
                    /\ cycle_count' = IF done THEN cycle_count + 1
                                      ELSE cycle_count
                    /\ SetExit(move_exit(how, e, IF done THEN "running"
                                                 ELSE "gait"))
    /\ UNCHANGED <<directVars, trajVars, ctlVars>>
    /\ UNCHANGED <<mode, metrics, calVars, momentum, polls, trajectory>>

\* a direct call servo_controller.set_angle(motor_id, degrees, retry_count)
ApiSetAngle ==
    /\ mode = "api"
    /\ pc = "api"
    /\ nCalls < MaxApiCalls
    /\ \E args \in ApiArgs, retry_count \in -1..MaxRetry :
          \E plan \in HwPlans(retry_count, metrics) :
              ApplyCall(CallRecord(args[1], args[2], retry_count, plan,
                                   metrics))
    /\ UNCHANGED <<directVars, trajVars, ctlVars>>
    /\ UNCHANGED <<mode, pc, metrics, calVars, moveVars, exit_code>>

\* a direct call gait_controller.apply_trot_gait_step(trajectory,
\* step_index, trajectory_length) with the trajectory move would pass
ApiGaitStep ==
    /\ mode = "gaitapi"
    /\ pc = "gaitapi"
    /\ \E s \in 0..MaxStepIndex, m \in GaitIntents :
          \E r \in {apply_trot_gait_step(s, m, metrics)} :
          LET n == Len(r.calls)
          IN  /\ lastStep' =
                    [step_index |-> s, momentum |-> m,
                     index_1 |-> TrotIndex(1, s, trajectory_length),
                     index_2 |-> TrotIndex(2, s, trajectory_length),
                     targets |-> [l \in 1..Len(Legs) |->
                                     LegTarget(Legs[l], s, m)],
                     result |-> r.result, commands |-> r.commands]
              /\ servo' = ServoFold(servo, r.calls)
              /\ motor_angles' = AnglesFold(motor_angles, r.calls)
              /\ alerts' = alerts + (IF n = 0 THEN 0 ELSE r.calls[n].alerts)
              /\ lastCall' = IF n = 0 THEN lastCall ELSE r.calls[n]
              /\ nCalls' = nCalls + n
    /\ pc' = "gaitdone"
    /\ UNCHANGED <<mode, metrics, calVars, moveVars, exit_code, solver,
                   firstIk, lastIk, nIk, lastLeg, trajVars, ctlVars>>

\* a direct call quadruped.leg_position(leg_id, x, y, z) on a Quadruped
\* that has just been built; every hardware write returns or fails
LegPosition ==
    /\ mode = "legapi"
    /\ pc = "legapi"
    /\ \E leg_id \in LegIds, p \in LegPoints,
          plans \in [1..3 -> {plan \in HwPlans(DefaultRetry, metrics) :
                                 \A k \in 1..DefaultRetry :
                                     plan[k] # "int"}] :
          \E r \in {leg_position(leg_id, p[1], p[2], p[3], plans, metrics)} :
          LET n == Len(r.calls)
          IN  /\ lastLeg' = [leg_id |-> leg_id, x |-> p[1], y |-> p[2],
                             z |-> p[3], result |-> r.result, ik |-> r.ik,
                             calls |-> r.calls]
              /\ servo' = ServoFold(servo, r.calls)
              /\ motor_angles' = AnglesFold(motor_angles, r.calls)
              /\ alerts' = alerts + (IF n = 0 THEN 0 ELSE r.calls[n].alerts)
              /\ lastCall' = IF n = 0 THEN lastCall ELSE r.calls[n]
              /\ nCalls' = nCalls + n
    /\ pc' = "legdone"
    /\ UNCHANGED <<mode, metrics, calVars, moveVars, exit_code, lastStep,
                   solver, firstIk, lastIk, nIk, trajVars, ctlVars>>

\* a direct call kinematics.calculate(x, y, z, right=right)
IkCall ==
    /\ mode = "ik"
    /\ pc = "ik"
    /\ nIk < MaxIkCalls
    /\ \E p \in IkPoints, right \in BOOLEAN :
          LET rec == [x |-> p[1], y |-> p[2], z |-> p[3], right |-> right,
                      out |-> calculate_on(solver, p[1], p[2], p[3], right)]
          IN  /\ lastIk' = rec
              /\ firstIk' = IF nIk = 0 THEN rec ELSE firstIk
    /\ solver' = SolverAfter(solver)
    /\ nIk' = nIk + 1
    /\ UNCHANGED <<mode, pc, metrics, servoVars, calVars, moveVars,
                   exit_code, lastStep, lastLeg, trajVars, ctlVars>>

\* a direct call trajectory_generator.generate()
TgGenerate ==
    /\ mode = "traj"
    /\ pc = "traj"
    /\ nTg < MaxTrajCalls
    /\ \E g \in {generate_cached(tg)} :
          /\ tg' = g.self
          /\ tgEvaluated' = tgEvaluated + (IF g.evaluated THEN 1 ELSE 0)
          /\ tgLast' = [trajectory |-> g.trajectory, length |-> g.length]
          /\ tgFirst' = IF nTg = 0 THEN tgLast' ELSE tgFirst
    /\ nTg' = nTg + 1
    /\ UNCHANGED <<mode, pc, metrics, servoVars, calVars, moveVars,
                   exit_code, directVars, ctlVars>>

\* a direct call trajectory_generator.clear_cache()
TgClearCache ==
    /\ mode = "traj"
    /\ pc = "traj"
    /\ tg' = clear_cache(tg)
    /\ UNCHANGED <<mode, pc, metrics, servoVars, calVars, moveVars,
                   exit_code, directVars, tgEvaluated, trajCalls, ctlVars>>

\* the receiver's caller: momentum = controller(momentum) when s.recvfrom
\* gives recv
RxCall(recv) ==
    \E r \in {rx_controller(rx.error_count, rx.momentum, recv)} :
       /\ rx' = [error_count |-> r.error_count,
                 momentum |-> IF r.result = "return" THEN r.momentum
                              ELSE rx.momentum]
       /\ rxLast' = [kind |-> recv.kind, data |-> recv.data,
                     from |-> recv.from, m |-> recv.m,
                     prev |-> rx.momentum, result |-> r.result,
                     returned |-> IF r.result = "return" THEN r.momentum
                                  ELSE <<>>]
       /\ rxRun' = IF IsError(recv) THEN rxRun + 1 ELSE 0

\* a call of network_receiver.controller under a socket stub
RxStubCall ==
    /\ mode = "rx"
    /\ pc = "rx"
    /\ \E recv \in StubRecvs :
          /\ IsError(recv) => rx.error_count < MaxErrorCount
          /\ RxCall(recv)
    /\ UNCHANGED <<mode, pc, metrics, servoVars, calVars, moveVars,
                   exit_code, directVars, trajVars, nRx, tx, wire, kbVars>>

\* one pass of the loop of network_sender_keyboard.controller; the
\* keyboard may raise KeyboardInterrupt (the loop closes) and s.sendto may
\* raise (logged, the loop goes on); a datagram that finds the wire full
\* is lost
TxLoop ==
    /\ mode = "net"
    /\ pc = "net"
    /\ ~tx.close
    /\ tx.loops < MaxTxLoops
    /\ \/ /\ tx' = [tx EXCEPT !.close = TRUE, !.loops = @ + 1]
          /\ wire' = wire
       \/ \E keys \in TxKeys, sent \in BOOLEAN :
             \E r \in {tx_loop(tx.momentum, keys, tx.accel, tx.bound,
                               tx.return_to_zero)} :
                /\ tx' = [tx EXCEPT !.momentum = r.momentum,
                                    !.close = r.close, !.loops = @ + 1]
                /\ wire' = IF r.moved /\ sent /\ Len(wire) < MaxWire
                           THEN Append(wire,
                                    [data |-> sender_tobytes(r.momentum),
                                     m |-> r.momentum])
                           ELSE wire
    /\ UNCHANGED <<mode, pc, metrics, servoVars, calVars, moveVars,
                   exit_code, directVars, trajVars, rxVars, kbVars>>

\* a call of network_receiver.controller on the receiving socket: the
\* oldest datagram on the wire, or socket.timeout when there is none
NetReceive ==
    /\ mode = "net"
    /\ pc = "net"
    /\ nRx < MaxRxCalls
    /\ IF wire = <<>>
       THEN /\ RxCall([kind |-> "timeout", data |-> <<>>, from |-> "wire",
                       m |-> <<>>])
            /\ wire' = wire
       ELSE /\ RxCall([kind |-> "data", data |-> Head(wire).data,
                       from |-> "sender", m |-> Head(wire).m])
            /\ wire' = Tail(wire)
    /\ nRx' = nRx + 1
    /\ UNCHANGED <<mode, pc, metrics, servoVars, calVars, moveVars,
                   exit_code, directVars, trajVars, tx, kbVars>>

\* a call momentum = controller(momentum, accel, bound) of the keyboard
\* controller; the array is updated in place
KbCall ==
    /\ mode = "kbd"
    /\ pc = "kbd"
    /\ nKb < MaxKbCalls
    /\ \E keys \in KbKeys, fail_at \in KbFailures :
          \E r \in {kb_controller(kb.momentum, kb.accel, kb.bound, keys,
                                  fail_at)} :
             /\ kb' = [kb EXCEPT !.momentum = r.momentum]
             /\ kbLast' = [keys |-> keys, fail_at |-> fail_at,
                           prev |-> kb.momentum, result |-> r.result,
                           returned |-> IF r.result = "return"
                                        THEN r.momentum ELSE <<>>,
                           keys_read |-> r.keys_read]
    /\ nKb' = nKb + 1
    /\ UNCHANGED <<mode, pc, metrics, servoVars, calVars, moveVars,
                   exit_code, directVars, trajVars, netVars>>

Next ==
    \/ Initialise
    \/ CalibrateStep
    \/ CalibrateReturn
    \/ Poll
    \/ PollRaises
    \/ Interrupt
    \/ GaitCommand
    \/ ApiSetAngle
    \/ ApiGaitStep
    \/ LegPosition
    \/ IkCall
    \/ TgGenerate
    \/ TgClearCache
    \/ RxStubCall
    \/ TxLoop
    \/ NetReceive
    \/ KbCall

Spec == Init /\ [][Next]_vars

\* the same program with a metrics collaborator that may raise
SpecFaulty == InitFaulty /\ [][Next]_vars

\* the program with a loop of move that keeps executing: the interpreter
\* runs its statements one after the other, and the poll and every hardware
\* write return or raise
SpecLive ==
    Init /\ [][Next]_vars /\ WF_vars(Poll \/ PollRaises \/ GaitCommand)

----------------------------------------------------------------------------
(* Properties of the servo port *)

\* C1: set_angle validates before it touches the hardware.  A call whose
\* motor_id is not an integer in 0..9, or whose angle is not a number in
\* [0, 180], raises ValidationError with no hardware write, no alert and no
\* metrics record; hence every angle written to the hardware, and every
\* angle a servo holds, is on a channel in 0..9 and within [0, 180].
C1_ValidatesBeforeHardware ==
    LET c == lastCall
        badMotor == ~(c.motor_id.t = "int" /\ c.motor_id.v \in 0..9)
        badAngle == ~(/\ c.degrees.t \in {"int", "float"}
                      /\ c.degrees.v >= 0
                      /\ c.degrees.v <= 180)
    IN  /\ (c.result # "none" /\ (badMotor \/ badAngle)) =>
              /\ c.result = "ValidationError"
              /\ c.writes = <<>>
              /\ c.alerts = 0
              /\ ~c.recorded
        /\ \A k \in 1..Len(c.writes) :
              c.writes[k].ch \in 0..9 /\ c.writes[k].angle \in 0..180
        /\ \A ch \in DOMAIN servo : ch \in 0..9 /\ servo[ch] \in 0..180

\* a call with motor_id 10 was rejected and nothing was written
C1_Witness ==
    /\ lastCall.motor_id = IntVal(10)
    /\ lastCall.result = "ValidationError"
    /\ nCalls = 1
    /\ servo = <<>>

\* C5: bounded retry, success.  For valid inputs and retry_count = n >= 1,
\* if the hardware write first succeeds on attempt k <= n, set_angle returns
\* True after exactly k writes to that channel, all with the requested
\* angle; it never makes more than n writes.
C5_BoundedRetrySuccess ==
    LET c == lastCall
        n == c.retry_count
        w == c.writes
    IN  (c.result \notin {"none", "ValidationError"} /\ n >= 1) =>
            /\ Len(w) <= n
            /\ \A k \in 1..Len(w) :
                  w[k].ch = c.motor_id.v /\ w[k].angle = c.degrees.v
            /\ \A k \in 1..n :
                  (c.plan[k] = "ok" /\ \A j \in 1..(k - 1) : c.plan[j] = "fail")
                  => /\ c.result = "True"
                     /\ Len(w) = k
                     /\ w[k].ok
                     /\ \A j \in 1..(k - 1) : ~w[j].ok

\* a call with three attempts whose write succeeded on the second attempt
C5_Witness ==
    /\ lastCall.retry_count = 3
    /\ lastCall.plan[1] = "fail"
    /\ lastCall.plan[2] = "ok"
    /\ lastCall.result = "True"
    /\ Len(lastCall.writes) = 2

\* C6: bounded retry, exhaustion.  For valid inputs, if every one of the
\* retry_count attempts fails, set_angle sends exactly one error alert and
\* then raises ServoError; no alert is sent otherwise, and the call never
\* ends with False.
C6_Exhaustion ==
    LET c == lastCall
        n == c.retry_count
    IN  /\ c.result \in {"none", "True", "ValidationError", "ServoError",
                         "KeyboardInterrupt"}
        /\ (/\ c.result \notin {"none", "ValidationError"}
            /\ \A k \in 1..n : c.plan[k] = "fail")
           => /\ c.result = "ServoError"
              /\ c.alerts = 1
              /\ Len(c.writes) = Max(n, 0)
        /\ c.result # "ServoError" => c.alerts = 0
        /\ alerts <= nCalls

\* three attempts, three failed writes, one alert, ServoError
C6_Witness ==
    /\ lastCall.retry_count = 3
    /\ Len(lastCall.writes) = 3
    /\ lastCall.result = "ServoError"
    /\ lastCall.alerts = 1

\* C7: metrics cannot influence actuation.  For the same arguments and the
\* same hardware behaviour, the hardware writes and the outcome of
\* set_angle are those of a controller without metrics, whether the metrics
\* collaborator is absent, works, or raises.  (Refuted under SpecFaulty.)
C7_MetricsCannotInfluenceActuation ==
    LET c == lastCall
        base == set_angle(c.motor_id, c.degrees, c.retry_count, c.plan,
                          NoMetrics)
    IN  c.result # "none" =>
            /\ c.writes = base.writes
            /\ c.result = base.result

----------------------------------------------------------------------------
(* Properties of the motion loop *)

\* C2: fail-stop.  When a gait step or the intent source raises a failure
\* during a tick, move increments the error counter by exactly one and
\* raises that same failure to its caller; after that there is no further
\* intent poll and no further actuation command.
C2_FailStop ==
    /\ [][ (hist.failure = "none" /\ hist'.failure # "none") =>
              /\ error_count' = error_count + 1
              /\ raised' = hist'.failure
              /\ pc' = "error_stopped" ]_vars
    /\ [][ hist.failure # "none" =>
              /\ polls' = polls
              /\ nCalls' = nCalls
              /\ servo' = servo
              /\ error_count' = error_count
              /\ raised' = raised ]_vars
    /\ [](hist.failure # "none" => ~ENABLED Next)

\* the hardware failed every attempt of a gait command: move stopped with
\* ServoError and counted it once
C2_Witness ==
    /\ pc = "error_stopped"
    /\ hist.failure = "ServoError"
    /\ raised = "ServoError"
    /\ error_count = 1
    /\ moveCalls > 0

\* C3: quit.  In a tick in which the intent source returns a vector with
\* the quit field above 0.5, move leaves the loop and returns normally,
\* with no actuation command in that tick or afterwards and no further
\* poll; if quit comes with the first poll, the intent source was called
\* exactly once and move issued no set_angle call.
C3_Quit ==
    /\ [][ (polls' = polls + 1 /\ momentum'[4] > 5) =>
              /\ pc' = "stopped"
              /\ raised' = "none"
              /\ ~interrupted'
              /\ error_count' = error_count
              /\ nCalls' = nCalls
              /\ servo' = servo ]_vars
    /\ [][ pc = "stopped" =>
              /\ polls' = polls
              /\ nCalls' = nCalls
              /\ servo' = servo ]_vars
    /\ []((polls = 1 /\ momentum[4] > 5) =>
              (pc = "stopped" /\ moveCalls = 0))

\* quit came with the second poll, after one complete gait step
C3_Witness ==
    /\ pc = "stopped"
    /\ ~interrupted
    /\ momentum[4] > 5
    /\ polls = 2
    /\ cycle_count = 1
    /\ moveCalls = Len(GaitCommands)

\* C4: progress.  With working hardware and an intent source that returns
\* the default intent for n >= 1 ticks and then quit, move performs n gait
\* steps of ten set_angle calls each and returns normally.  (Refuted: the
\* first gait step raises ValidationError.)
C4_DefaultIntentWalks ==
    (/\ mode = "main"
     /\ polls > 0
     /\ hist.defaults
     /\ hist.hwok
     /\ hist.abort = "none")
    => /\ raised = "none"
       /\ pc # "error_stopped"
       /\ pc = "stopped" =>
             /\ cycle_count = polls - 1
             /\ moveCalls = Len(GaitCommands) * cycle_count

\* C8: metrics in the motion loop is best-effort.  A failure of the metrics
\* collaborator while it records controller status, intent or cycle
\* duration does not stop the loop and is not raised to the caller of
\* move.  (Refuted under SpecFaulty.)
C8_MetricsBestEffort ==
    mode = "main" =>
        /\ hist.failure # "MetricsError"
        /\ raised # "MetricsError"

\* C9: cancellation.  When the external abort arrives inside the loop, move
\* stops the loop, logs final metrics exactly once and returns normally:
\* nothing is raised, the error counter is unchanged, and no actuation
\* command or poll follows the abort.
C9_Cancellation ==
    /\ [][ (hist.abort = "none" /\ hist'.abort = "move") =>
              /\ pc' = "stopped"
              /\ interrupted'
              /\ final_logged' = final_logged + 1
              /\ raised' = "none"
              /\ error_count' = error_count
              /\ servo' = servo
              /\ polls' = polls ]_vars
    /\ [][ hist.abort = "move" =>
              /\ nCalls' = nCalls
              /\ servo' = servo
              /\ polls' = polls
              /\ final_logged' = final_logged ]_vars
    /\ [](hist.abort = "move" => (final_logged = 1 /\ error_count = 0))

\* the abort arrived in the middle of the retries of a gait command
C9_Witness ==
    /\ hist.abort = "move"
    /\ lastCall.result = "KeyboardInterrupt"
    /\ Len(lastCall.writes) = 1
    /\ moveCalls > Len(GaitCommands)
    /\ pc = "stopped"
    /\ final_logged = 1

\* the stage of main's lifecycle a control point belongs to
Stage(p) ==
    CASE p = "uninit" -> 0
      [] p = "calibrating" -> 1
      [] p \in {"running", "gait"} -> 2
      [] OTHER -> 3

\* C10: lifecycle order.  main goes through initialise, calibrate, motion
\* loop, stopped in this order; the loop is entered only after calibration
\* returned True; when calibration returns False the process exits with
\* status 1 and no gait actuation; once the loop has ended, by quit or by
\* failure, no poll and no actuation command follows.
C10_LifecycleOrder ==
    /\ [][ mode = "main" =>
              /\ Stage(pc') >= Stage(pc)
              /\ \/ Stage(pc') <= Stage(pc) + 1
                 \/ pc = "calibrating" /\ pc' = "exited"
              /\ (Stage(pc) < 2 /\ Stage(pc') = 2) =>
                    (pc = "calibrating" /\ calQueue = <<>> /\ calOk)
              /\ (pc = "calibrating" /\ calQueue = <<>> /\ ~calOk) =>
                    /\ pc' = "exited"
                    /\ exit_code' = IF hist'.abort = "main" THEN "0" ELSE "1"
              /\ Stage(pc) < 2 => (polls' = 0 /\ moveCalls' = 0)
              /\ Stage(pc) = 3 =>
                    (pc' = pc /\ polls' = polls /\ nCalls' = nCalls
                     /\ servo' = servo) ]_vars
    /\ []((mode = "main" /\ Stage(pc) = 3) => ~ENABLED Next)

\* calibration returned False: the process exited with status 1 before any
\* poll or gait command
C10_Witness ==
    /\ pc = "exited"
    /\ exit_code = "1"
    /\ ~calOk
    /\ polls = 0
    /\ moveCalls = 0

----------------------------------------------------------------------------
(* Properties of calibration *)

\* the channels of a calibration map or log, in order
Channels(entries) == [k \in 1..Len(entries) |-> entries[k][1]]
LoggedChannels(log) == [k \in 1..Len(log) |-> log[k].ch]

\* C11: calibrate attempts set_angle for every channel of the map exactly
\* once, whatever happens to other channels: a channel that fails with
\* ValidationError or with ServoError neither aborts the remaining channels
\* nor raises out of calibrate; calibrate returns True if and only if every
\* channel of the map succeeded.
C11_CalibrateEveryChannel ==
    /\ [](mode = "main" =>
            /\ \E m \in Calibrations :
                  Channels(m) = LoggedChannels(calLog) \o Channels(calQueue)
            /\ hist.abort # "main" =>
                  (calOk <=> \A k \in 1..Len(calLog) :
                                 calLog[k].result = "True"))
    /\ [][ (/\ Len(calLog') = Len(calLog) + 1
            /\ calLog'[Len(calLog')].result \in {"ValidationError",
                                                 "ServoError"})
           => /\ pc' = "calibrating"
              /\ calQueue' = Tail(calQueue)
              /\ raised' = "none"
              /\ exit_code' = "none" ]_vars
    /\ [][ (pc = "calibrating" /\ pc' # "calibrating" /\ hist'.abort # "main")
           => calQueue = <<>> ]_vars

\* the first channel of the default map failed after its retries, the other
\* nine channels were still commanded, and calibrate is about to return False
C11_Witness ==
    /\ pc = "calibrating"
    /\ calQueue = <<>>
    /\ Len(calLog) = Len(DefaultCalibration)
    /\ calLog[1].result = "ServoError"
    /\ \A k \in 2..Len(calLog) : calLog[k].result = "True"
    /\ ~calOk

\* C12: every failure is observable through the alert system.  Each failure
\* event on the control path (a hardware write that failed and was absorbed
\* by a retry, an exhausted retry, a calibration channel that failed, a
\* ValidationError, a KinematicsError, an error of the intent source) has
\* at least one alert recorded.  (Refuted: only the exhausted retry sends
\* an alert.)
C12_EveryFailureAlerts ==
    /\ (\/ \E k \in 1..Len(lastCall.writes) : ~lastCall.writes[k].ok
        \/ lastCall.result \in {"ValidationError", "ServoError"})
       => lastCall.alerts >= 1
    /\ (\E k \in 1..Len(calLog) :
            calLog[k].result \in {"ValidationError", "ServoError"})
       => alerts >= 1
    /\ hist.failure # "none" => alerts >= 1

----------------------------------------------------------------------------
(* Properties of the gait step *)

\* C13: a leg is never silently skipped.  If the inverse kinematics or a
\* set_angle call fails while a gait step updates a leg, the failure leaves
\* the step unchanged and no later command of the step is issued; a gait
\* step returns normally only after all four legs were updated.
C13_NoLegSkipped ==
    /\ [](mode = "main" =>
            \A k \in 1..Len(stepLog) :
                stepLog[k].result # "True" =>
                    /\ k = Len(stepLog)
                    /\ pc \in {"stopped", "error_stopped"}
                    /\ stepLog[k].result # "KeyboardInterrupt" =>
                           raised = stepLog[k].result)
    /\ [][ (pc = "gait" /\ hist.failure = "none" /\ hist'.failure # "none")
           => /\ pc' = "error_stopped"
              /\ raised' = hist'.failure
              /\ cycle_count' = cycle_count
              /\ step_index' = step_index ]_vars
    /\ [][ cycle_count' = cycle_count + 1 =>
              /\ Len(stepLog') = 10
              /\ \A k \in 1..Len(stepLog') : stepLog'[k].result = "True"
              /\ {stepLog'[k].leg : k \in 1..Len(stepLog')} = 1..4 ]_vars

\* the back-right shoulder failed after its retries: the front-right leg
\* was commanded, the two left legs were not, and move raised ServoError
C13_Witness ==
    /\ pc = "error_stopped"
    /\ Len(stepLog) = 4
    /\ stepLog[4].leg = 2
    /\ stepLog[4].result = "ServoError"
    /\ raised = "ServoError"

\* the target a leg gets from sample k (0-based) of the cached trajectory
\* scaled by the intent m, with the leg's vertical bias dy and the sign
\* zs of its lateral component
TargetAt(k, m, dy, zs) ==
    [x |-> FloatVal(Scaled(CachedTrajectory.x, k, m[1])),
     y |-> FloatVal(Scaled(CachedTrajectory.y, k, m[3]) + dy),
     z |-> FloatVal(zs * Scaled(CachedTrajectory.z, k, m[2]))]

\* C14: trot phase indexing.  In every gait step, for every step_index >= 0,
\* the front-right and back-left legs take their target from sample
\* step_index mod trajectory_length and the front-left and back-right legs
\* from sample (step_index + resolution) mod trajectory_length; both
\* indices lie in [0, trajectory_length).
C14_TrotPhaseIndexing ==
    lastStep.result # "none" =>
        LET s == lastStep.step_index
            m == lastStep.momentum
            i1 == s % trajectory_length
            i2 == (s + step_resolution) % trajectory_length
        IN  /\ lastStep.index_1 = i1
            /\ lastStep.index_2 = i2
            /\ lastStep.index_1 \in 0..(trajectory_length - 1)
            /\ lastStep.index_2 \in 0..(trajectory_length - 1)
            /\ lastStep.targets[1] = TargetAt(i1, m, -100, 1)
            /\ lastStep.targets[2] = TargetAt(i2, m, 200, 0)
            /\ lastStep.targets[3] = TargetAt(i2, m, -100, -1)
            /\ lastStep.targets[4] = TargetAt(i1, m, 200, 0)

\* a step past the end of the trajectory: step_index 45 reads samples 5
\* and 25
C14_Witness ==
    /\ lastStep.result = "ok"
    /\ lastStep.step_index = trajectory_length + 5
    /\ lastStep.index_1 = 5
    /\ lastStep.index_2 = step_resolution + 5

\* C15: cyclic correctness.  For every step_index s >= 0 and every k >= 0,
\* the gait step at s + k * trajectory_length has the same per-leg targets
\* and the same sequence of servo commands as the gait step at s; the step
\* at trajectory_length equals the step at 0.
C15_CyclicStep ==
    lastStep.result # "none" =>
        LET s == lastStep.step_index % trajectory_length
            m == lastStep.momentum
            base == apply_trot_gait_step(s, m, metrics)
        IN  /\ lastStep.result = base.result
            /\ lastStep.commands = base.commands
            /\ lastStep.targets =
                   [l \in 1..Len(Legs) |-> LegTarget(Legs[l], s, m)]

\* the step at step_index = 2 * trajectory_length, all ten commands issued
C15_Witness ==
    /\ lastStep.step_index = 2 * trajectory_length
    /\ lastStep.result = "ok"
    /\ Len(lastStep.commands) = Len(GaitCommands)

\* C16: alternating diagonal support.  With the trajectory of
\* TrajectoryGenerator(resolution) and a GaitController of the same
\* resolution, the two diagonal pairs are half a cycle apart: the secondary
\* index at step s is the primary index at step s + resolution and vice
\* versa, so at every step exactly one pair is on the lift segment (indices
\* below resolution) and the other on the slide segment.
C16_AlternatingDiagonal ==
    lastStep.result # "none" =>
        LET s == lastStep.step_index
            L == trajectory_length
            r == step_resolution
        IN  /\ L = 2 * r
            /\ lastStep.index_2 = (s + r) % L
            /\ lastStep.index_1 = ((s + r) + r) % L
            /\ \/ lastStep.index_1 \in 0..(r - 1)
                  /\ lastStep.index_2 \in r..(2 * r - 1)
               \/ lastStep.index_2 \in 0..(r - 1)
                  /\ lastStep.index_1 \in r..(2 * r - 1)

\* a step in which the primary pair slides and the secondary pair lifts
C16_Witness ==
    /\ lastStep.result = "ok"
    /\ lastStep.index_1 = step_resolution
    /\ lastStep.index_2 = 0

\* the channels a complete gait step commands, in order
StepOrder == <<Motor.FR_SHOULDER, Motor.FR_ELBOW, Motor.FR_HIP,
               Motor.BR_SHOULDER, Motor.BR_ELBOW,
               Motor.FL_SHOULDER, Motor.FL_ELBOW, Motor.FL_HIP,
               Motor.BL_SHOULDER, Motor.BL_ELBOW>>

\* C17: hip dispatch and command order.  A gait step in which nothing fails
\* issues exactly ten set_angle commands, one to each channel 0..9, in the
\* order front-right (shoulder, elbow, hip), back-right (shoulder, elbow),
\* front-left (shoulder, elbow, hip), back-left (shoulder, elbow); a hip
\* command is issued for the front legs only.
C17_HipDispatchOrder ==
    /\ [](lastStep.result = "ok" =>
             LoggedChannels(lastStep.commands) = StepOrder)
    /\ [][ cycle_count' = cycle_count + 1 =>
               LoggedChannels(stepLog') = StepOrder ]_vars
    /\ [](\A k \in 1..Len(stepLog) :
             /\ stepLog[k].ch = StepOrder[k]
             /\ stepLog[k].leg \in {2, 4} =>
                    stepLog[k].ch \notin {Motor.FR_HIP, Motor.FL_HIP})
    /\ {StepOrder[k] : k \in 1..Len(StepOrder)} = 0..9

\* the first tick of the loop completed its gait step with ten commands
C17_Witness ==
    /\ mode = "main"
    /\ pc = "running"
    /\ cycle_count = 1
    /\ Len(stepLog) = 10
    /\ stepLog[3].ch = Motor.FR_HIP
    /\ stepLog[10].ch = Motor.BL_ELBOW

----------------------------------------------------------------------------
(* Properties of the inverse kinematics *)

\* x, y and z of a direct call are numbers
NumericPoint(c) ==
    /\ c.x.t \in {"int", "float"}
    /\ c.y.t \in {"int", "float"}
    /\ c.z.t \in {"int", "float"}

\* C18: reachable targets are solved.  For every numeric (x, y, z) whose
\* distance from the hip is at most L1 + L2, calculate returns three angles,
\* the shoulder within [shoulder_offset, 180 + shoulder_offset] and the
\* elbow within [elbow_offset, 180 + elbow_offset], and for every target
\* farther away it raises KinematicsError.  (Refuted: a reachable target
\* with y < 0.1, such as (5, -15, 0), raises ValidationError.)
C18_ReachableTargetsSolved ==
    (lastIk.out.result # "none" /\ NumericPoint(lastIk)) =>
        LET d2 == lastIk.x.v * lastIk.x.v + lastIk.y.v * lastIk.y.v
                      + lastIk.z.v * lastIk.z.v
            reach == upper_leg_length + lower_leg_length
            out == lastIk.out
        IN  IF d2 <= reach * reach
            THEN /\ out.result = "ok"
                 /\ out.shoulder.v >= shoulder_offset
                 /\ out.shoulder.v <= 180 + shoulder_offset
                 /\ out.elbow.v >= elbow_offset
                 /\ out.elbow.v <= 180 + elbow_offset
            ELSE out.result = "KinematicsError"

C20_CalculateHasNoSideEffect ==
    /\ [](solver = Solver)
    /\ []((/\ nIk >= 2
           /\ lastIk.x = firstIk.x
           /\ lastIk.y = firstIk.y
           /\ lastIk.z = firstIk.z
           /\ lastIk.right = firstIk.right)
          => lastIk.out = firstIk.out)
    /\ [][ nIk' = nIk + 1 =>
              /\ solver' = solver
              /\ servo' = servo
              /\ nCalls' = nCalls
              /\ alerts' = alerts ]_vars
    /\ [][ (/\ pc = "gait"
            /\ hist.failure = "none"
            /\ hist'.failure # "none"
            /\ nCalls' = nCalls)
           => /\ servo' = servo
              /\ stepLog' = stepLog
              /\ \A k \in 1..Len(stepLog) :
                    stepLog[k].leg # GaitCommands[cmd + 1].leg ]_vars

\* the same unreachable target twice on one solver
C20_Witness ==
    /\ nIk = 2
    /\ firstIk.y = IntVal(3200)
    /\ lastIk.y = IntVal(3200)
    /\ firstIk.right = lastIk.right
    /\ lastIk.out.result = "KinematicsError"


\* two direct calls on the same x and y that both returned angles, the
\* first for the right side and the last for the left side
MirrorPair ==
    /\ nIk >= 2
    /\ NumericPoint(firstIk) /\ NumericPoint(lastIk)
    /\ firstIk.x = lastIk.x
    /\ firstIk.y = lastIk.y
    /\ firstIk.right /\ ~lastIk.right
    /\ firstIk.out.result = "ok" /\ lastIk.out.result = "ok"

\* C21 as stated: the hip angle of calculate(x, y, z, right=True) is the
\* negation of the hip angle of calculate(x, y, -z, right=False), with equal
\* shoulder and elbow angles.  (Refuted: the left-side call negates z again,
\* so both calls solve the same point and the hip angles are equal.)
C21_MirrorSymmetryAsStated ==
    (MirrorPair /\ lastIk.z.v = -firstIk.z.v)
    => /\ lastIk.out.hip.v = -firstIk.out.hip.v
       /\ lastIk.out.shoulder = firstIk.out.shoulder
       /\ lastIk.out.elbow = firstIk.out.elbow

\* C21 amended: for every accepted (x, y, z), the hip angle of
\* calculate(x, y, z, right=True) is the negation of the hip angle of
\* calculate(x, y, z, right=False) (hip offset 0), and the shoulder and
\* elbow angles of the two calls are equal.
C21_MirrorSymmetry ==
    (MirrorPair /\ lastIk.z.v = firstIk.z.v)
    => /\ lastIk.out.hip.v = -firstIk.out.hip.v
       /\ lastIk.out.shoulder = firstIk.out.shoulder
       /\ lastIk.out.elbow = firstIk.out.elbow

\* the same point with z = 1 cm solved for the right and then the left side
C21_Witness ==
    /\ MirrorPair
    /\ firstIk.z = FloatVal(100)
    /\ lastIk.z = FloatVal(100)
    /\ firstIk.out.hip.v > 0
    /\ lastIk.out.hip.v < 0


----------------------------------------------------------------------------
(* Properties of the trajectory cache *)

\* C22: trajectory idempotence and determinism.  In any sequence of
\* generate() and clear_cache() calls on one TrajectoryGenerator every
\* generate() returns the same trajectory values and the same length; a
\* generate() with the cache filled returns the cached result without
\* evaluating the curves again and leaves the generator as it is, and a
\* generate() after clear_cache() evaluates them again and returns what the
\* earlier calls returned.
C22_TrajectoryIdempotent ==
    /\ [](nTg >= 1 => tgLast = tgFirst)
    /\ [][ (nTg' = nTg + 1 /\ tg.cached_trajectory # None)
           => /\ tgEvaluated' = tgEvaluated
              /\ tg' = tg
              /\ tgLast'.trajectory = tg.cached_trajectory.v
              /\ tgLast'.length = tg.cached_length.v ]_vars
    /\ [][ (nTg' = nTg + 1 /\ tg.cached_trajectory = None)
           => /\ tgEvaluated' = tgEvaluated + 1
              /\ tg'.cached_trajectory = Some(tgLast'.trajectory)
              /\ (nTg >= 1 => tgLast' = tgLast) ]_vars

\* three calls at resolution 20, one answered from the cache and one after
\* a clear_cache
C22_Witness ==
    /\ nTg = 3
    /\ tgEvaluated = 2
    /\ tg.step_resolution = step_resolution
    /\ tgLast = tgFirst
    /\ Len(tgLast.trajectory.x) > 0

\* C23: trajectory shape.  generate() returns three sequences (x, z, y) of
\* equal length; the reported trajectory_length is that length and is
\* exactly 2 * resolution, hence even: resolution samples of the lift (x
\* from -1 to 1) followed by resolution samples of the slide (x from 1 back
\* to -1 at y = -15); the cached length always matches the cached
\* trajectory.
C23_TrajectoryShape ==
    /\ nTg >= 1 =>
          LET t == tgLast.trajectory
              n == tg.step_resolution
          IN  /\ Len(t.x) = tgLast.length
              /\ Len(t.z) = tgLast.length
              /\ Len(t.y) = tgLast.length
              /\ tgLast.length = 2 * n
              /\ tgLast.length % 2 = 0
              /\ t.x[1] = -100 /\ t.x[n] = 100
              /\ t.x[n + 1] = 100 /\ t.x[2 * n] = -100
              /\ \A k \in (n + 1)..(2 * n) : t.y[k] = -1500
    /\ (tg.cached_trajectory = None) = (tg.cached_length = None)
    /\ tg.cached_trajectory # None =>
          /\ tg.cached_length.v = Len(tg.cached_trajectory.v.x)
          /\ tg.cached_length.v = Len(tg.cached_trajectory.v.z)
          /\ tg.cached_length.v = Len(tg.cached_trajectory.v.y)
          /\ tg.cached_length.v = 2 * tg.step_resolution

\* a generate() at resolution 3 returned six samples per axis
C23_Witness ==
    /\ nTg >= 1
    /\ tg.step_resolution = 3
    /\ tgLast.length = 6
    /\ tg.cached_length = Some(6)

\* C24: the trajectory cache is write-once while running.  move obtains
\* the trajectory once before entering the loop; during the loop the cache
\* is never regenerated or cleared and the cached values are never
\* modified: scaling by the intent leaves the cached trajectory unchanged
\* after any number of ticks.
C24_CacheWriteOnce ==
    /\ []((mode = "main"
             /\ pc \in {"running", "gait", "stopped", "error_stopped"})
          => /\ tgEvaluated = 1
             /\ tg.cached_trajectory = Some(generate(step_resolution))
             /\ tg.cached_length = Some(2 * step_resolution))
    /\ []((mode = "main" /\ pc \in {"uninit", "calibrating"})
          => tgEvaluated = 0 /\ tg.cached_trajectory = None)
    /\ [][ (mode = "main" /\ pc \in {"running", "gait"})
           => tg' = tg /\ tgEvaluated' = tgEvaluated ]_vars

\* two whole gait steps scaled by an intent other than the default
C24_Witness ==
    /\ mode = "main"
    /\ cycle_count >= 2
    /\ momentum = <<10, 0, -10, 0>>
    /\ tg.cached_trajectory = Some(generate(step_resolution))


----------------------------------------------------------------------------
(* Properties of the network controllers *)

\* C25: consecutive-error threshold of the network receiver.  From any
\* reachable state of the receiver, a call of controller raises
\* ControllerError if and only if it is the 10th or a later error of an
\* unbroken run of errors; a run of at most 9 errors in a row never raises
\* and each of its calls returns the previous intent unchanged.  (Refuted:
\* a short or empty datagram between two errors does not reset
\* controller._error_count, so the error after it is counted on top of the
\* errors before it.)
C25_ConsecutiveErrorThreshold ==
    (mode = "rx" /\ rxLast.kind # "none") =>
        /\ (rxLast.result = "ControllerError")
              <=> (IsError(rxLast) /\ rxRun >= max_consecutive_errors)
        /\ (IsError(rxLast) /\ rxRun < max_consecutive_errors)
              => /\ rxLast.result = "return"
                 /\ rxLast.returned = rxLast.prev


\* C26: a short datagram is no update.  When the receiver gets a datagram
\* shorter than 16 bytes, controller returns the previous intent vector
\* unchanged (all four fields, quit included) and raises nothing; a timeout
\* with no datagram likewise returns the previous intent unchanged.
C26_ShortDatagramNoUpdate ==
    (\/ rxLast.kind = "data" /\ Len(rxLast.data) < 16
     \/ rxLast.kind = "timeout")
    => /\ rxLast.result = "return"
       /\ rxLast.returned = rxLast.prev
       /\ rx.momentum = rxLast.prev

\* the 8-byte datagram of the repository's test, received while the caller
\* holds an intent with the quit field set
C26_Witness ==
    /\ rxLast.kind = "data"
    /\ Len(rxLast.data) = 8
    /\ rxLast.prev = asarray32(<<0, 0, 10, 10>>)
    /\ rxLast.returned = asarray32(<<0, 0, 10, 10>>)

\* what the sender puts on the wire for the intent vector m, as the wire
\* format defines it: m as four 32-bit floats
WireRecord(m) == tobytes32(m)

\* C27: wire-format round trip.  Every datagram the network sender emits
\* is a 16-byte record of four 32-bit floats ordered [forward, lateral,
\* vertical, quit], and the receiver decoding a datagram the sender
\* produced for an intent vector m returns the same four values as m.
\* (Refuted: the sender's array is float64, its datagrams are 32 bytes
\* long and the receiver reads the first 16 of them as four float32.)
C27_WireRoundTrip ==
    /\ \A k \in 1..Len(wire) :
          /\ Len(wire[k].data) = 16
          /\ wire[k].data = WireRecord(wire[k].m)
    /\ rxLast.from = "sender" =>
          /\ rxLast.result = "return"
          /\ rxLast.returned = asarray32(rxLast.m)


----------------------------------------------------------------------------
(* Quadruped.calibrate *)

\* C28: Quadruped.calibrate commands all mapped motors.  For a Quadruped
\* built from a configuration, one with an empty calibration map included,
\* calibrate() issues a set_angle command for every motor of the channel
\* mapping (at least 9 calls) and returns True when every command succeeds.
\* (Refuted: with 'calibration': {} in the configuration the default map is
\* not used and calibrate() returns True after no set_angle call at all.)
C28_CalibrateCommandsAllMotors ==
    (mode = "main" /\ pc \in {"running", "gait", "stopped", "error_stopped"})
    => /\ Len(calLog) >= 9
       /\ \A f \in DOMAIN Motor :
             \E k \in 1..Len(calLog) :
                calLog[k].ch = Motor[f] /\ calLog[k].result = "True"


----------------------------------------------------------------------------
(* Properties of the keyboard controller *)

\* accel and bound as the keyboard controller accepts them, stated on the
\* values
KbAccepted(accel, bound) ==
    /\ accel.t \in {"int", "float"} /\ bound.t \in {"int", "float"}
    /\ accel.v >= 1 /\ accel.v <= 10000
    /\ bound.v >= 0

\* C29: keyboard intent bounds.  For valid accel and bound, after any
\* sequence of calls of the keyboard controller with any combination of
\* keys pressed, starting from forward and lateral components within
\* [-bound, bound], both components remain within [-bound, bound]; a
\* component already at the bound is not pushed beyond it by a further key
\* press in the same direction.
C29_KeyboardIntentBounds ==
    (mode = "kbd" /\ KbAccepted(kb.accel, kb.bound)) =>
        /\ \A i \in 1..2 :
              -kb.bound.v <= kb.momentum[i] /\ kb.momentum[i] <= kb.bound.v
        /\ kbLast.result # "none" =>
              /\ kbLast.result = "return"
              /\ kbLast.returned = kb.momentum
              /\ (kbLast.prev[1] = kb.bound.v /\ kbLast.keys = {"w"})
                    => kb.momentum[1] = kb.bound.v
              /\ (kbLast.prev[2] = -kb.bound.v /\ kbLast.keys = {"a"})
                    => kb.momentum[2] = -kb.bound.v
              /\ kb.momentum[3] = kbLast.prev[3]
              /\ kb.momentum[4] = kbLast.prev[4]

\* 'w' pressed with the forward component already at the bound 4
C29_Witness ==
    /\ mode = "kbd"
    /\ kb.bound = IntVal(40000)
    /\ kb.accel = IntVal(10000)
    /\ kbLast.result = "return"
    /\ kbLast.prev[1] = 40000
    /\ kbLast.keys = {"w"}
    /\ kbLast.fail_at = 0
    /\ kb.momentum[1] = 40000

\* C30: keyboard controller parameter validation.  A call with
\* accel < 0.0001, accel > 1, a non-numeric accel or bound, or bound < 0
\* raises ValidationError before any key is read and leaves the intent
\* vector passed in completely unchanged.
C30_KeyboardParamValidation ==
    (/\ kbLast.result # "none"
     /\ \/ kb.accel.t \notin {"int", "float"}
        \/ kb.bound.t \notin {"int", "float"}
        \/ kb.accel.v < 1
        \/ kb.accel.v > 10000
        \/ kb.bound.v < 0)
    => /\ kbLast.result = "ValidationError"
       /\ kbLast.keys_read = 0
       /\ kb.momentum = kbLast.prev

\* the call of the repository's test, accel = -1, with 'w' held down
C30_Witness ==
    /\ kb.accel = IntVal(-10000)
    /\ kbLast.result = "ValidationError"
    /\ "w" \in kbLast.keys
    /\ kb.momentum = kbLast.prev


\* ---------------------------------------------------------------------
\* C31: in every tick that reaches the gait step the working trajectory
\* is the cached baseline scaled axis by axis with the intent polled in
\* that tick (x by forward, z by lateral, y by the vertical scale); the
\* cached baseline itself stays the unscaled trajectory, so the scaling of
\* one tick never enters the next, and within a tick nothing polls again
\* or rescales.
C31_AxisScaled(row, c) ==
    [k \in 1..Len(row) |-> (row[k] * c) \div 10]

C31_ScalingFromBaseline ==
    (mode = "main" /\ pc = "gait") =>
        /\ tg.cached_trajectory = Some(CachedTrajectory)
        /\ trajectory.x = C31_AxisScaled(CachedTrajectory.x, momentum[1])
        /\ trajectory.z = C31_AxisScaled(CachedTrajectory.z, momentum[2])
        /\ trajectory.y = C31_AxisScaled(CachedTrajectory.y, momentum[3])
        /\ polls = cycle_count + 1
        /\ \A l \in 1..Len(Legs) :
             LET k == TrotIndex(Legs[l].pair, step_index, trajectory_length)
                 t == LegTarget(Legs[l], step_index, momentum)
             IN  /\ t.x.v = trajectory.x[k + 1]
                 /\ t.y.v = trajectory.y[k + 1] + Legs[l].dy
                 /\ t.z.v = Legs[l].zsign * trajectory.z[k + 1]

\* a later tick, forward 1 and lateral 0 with the vertical scale -1: the
\* three axes are scaled differently and commands have gone out
C31_Witness ==
    /\ mode = "main"
    /\ pc = "gait"
    /\ cycle_count >= 1
    /\ momentum = <<10, 0, -10, 0>>
    /\ trajectory.x = CachedTrajectory.x
    /\ trajectory.y # CachedTrajectory.y
    /\ \E k \in 1..Len(trajectory.z) :
          trajectory.z[k] # CachedTrajectory.z[k]
    /\ Len(stepLog) >= 1


\* ---------------------------------------------------------------------
\* C32: step_index counts the completed gait steps of a move() run: it is
\* 0 when the loop starts, the gait step of the k-th tick (k = 0, 1, ...)
\* is computed with step_index = k, step_index grows by exactly 1 in the
\* step that completes a gait step and in no other, and it never shrinks
\* or grows in a tick that quits or fails.
C32_StepCounts ==
    (mode = "main" /\ pc \in {"running", "gait", "stopped", "error_stopped"})
    =>  /\ step_index = cycle_count
        /\ polls = 0 => step_index = 0
        /\ pc = "gait" =>
             /\ step_index = polls - 1
             /\ \A i \in 1..Len(stepLog) :
                  LET c == GaitCommands[i]
                      ik == LegIk(Legs[c.leg], step_index, momentum)
                  IN  /\ ik.result = "ok"
                      /\ stepLog[i].angle = JointAngle(ik, c.joint).v

C32_StepCompletes ==
    /\ mode = "main"
    /\ pc = "gait"
    /\ cmd = Len(GaitCommands) - 1
    /\ Len(stepLog') = Len(GaitCommands)
    /\ stepLog'[Len(GaitCommands)].result = "True"

C32_StepIndexIncreasing ==
    /\ [](C32_StepCounts)
    /\ [][ /\ (mode = "main" /\ pc \in {"running", "gait"}) =>
                /\ step_index' \in {step_index, step_index + 1}
                /\ (step_index' = step_index + 1) <=> C32_StepCompletes
                /\ pc' \in {"stopped", "error_stopped"}
                      => step_index' = step_index
           /\ (mode = "main" /\ pc = "calibrating" /\ pc' = "running")
                => step_index' = 0 ]_vars

\* the third tick is at its gait step after two completed ones
C32_Witness ==
    /\ mode = "main"
    /\ pc = "gait"
    /\ step_index = 2
    /\ polls = 3
    /\ Len(stepLog) >= 1


\* ---------------------------------------------------------------------
\* C33: the receiver's error count is the length of the current unbroken
\* run of failing calls: after a call that ends without a transport error
\* (a valid datagram, a timeout, a datagram shorter than 16 bytes) the
\* count is zero, and after a failing call it is the number of failing
\* calls since the last call that did not fail.  (Refuted: a short or
\* empty datagram returns before the reset, so the count still holds the
\* errors from before it.)
C33_CountIsRunLength ==
    (mode = "rx" /\ rxLast.kind # "none") =>
        /\ ~IsError(rxLast) => rx.error_count = 0
        /\ rx.error_count = rxRun


\* ---------------------------------------------------------------------
\* C34: termination of the motion loop.  A set_angle call makes at most
\* retry_count attempts; inside a tick every command either leaves the
\* loop or advances the gait step, which has a fixed number of commands;
\* a poll that returns quit > 0.5 ends move in that tick; move ends only
\* by quit, by an abort or by a propagated failure; and a loop whose
\* statements keep executing, with an intent source that eventually
\* returns quit, eventually ends.
C34_TickAdvances ==
    (mode = "main" /\ pc = "gait") =>
        \/ pc' \in {"stopped", "error_stopped"}
        \/ pc' = "gait" /\ cmd' = cmd + 1 /\ cmd' < Len(GaitCommands)
        \/ pc' = "running" /\ cmd = Len(GaitCommands) - 1
                           /\ cycle_count' = cycle_count + 1

C34_OnlyExits ==
    (mode = "main" /\ pc \in {"running", "gait"}) =>
        /\ (polls' # polls /\ pc' # "error_stopped" /\ QuitSet(momentum'))
              => pc' = "stopped"
        /\ pc' = "stopped" =>
              \/ pc = "running" /\ polls' # polls /\ QuitSet(momentum')
              \/ interrupted' /\ ~interrupted
        /\ pc' = "error_stopped" => raised' # "none" /\ raised = "none"
        /\ pc' \in {"running", "gait", "stopped", "error_stopped"}

C34_Termination ==
    /\ [](lastCall.result # "none"
             => /\ Len(lastCall.writes) <= Max(lastCall.retry_count, 0)
                /\ Len(lastCall.writes) <= MaxRetry)
    /\ [](mode = "main" => /\ cmd < Len(GaitCommands)
                           /\ Len(stepLog) <= Len(GaitCommands))
    /\ [][C34_TickAdvances /\ C34_OnlyExits]_vars
    /\ (mode = "main" /\ pc \in {"running", "gait"})
          ~> (pc \in {"stopped", "error_stopped"})

\* move returned normally on quit after a completed tick
C34_Witness ==
    /\ mode = "main"
    /\ pc = "stopped"
    /\ QuitSet(momentum)
    /\ ~interrupted
    /\ cycle_count >= 1
    /\ moveCalls >= Len(GaitCommands)
    /\ lastCall.result = "True"


\* ---------------------------------------------------------------------
\* C35: outcome of Quadruped.leg_position.  A leg_id outside FL, FR, BL,
\* BR or a non-numeric coordinate raises ValidationError before any
\* inverse kinematics and before any set_angle call; otherwise the call
\* returns True or False and never raises: True exactly when the inverse
\* kinematics succeeded and every set_angle call of the leg returned True
\* (shoulder, elbow, and the hip of a front leg), False on any failure of
\* the inverse kinematics or of a set_angle call; a rear leg gets no hip
\* command.
C35_ValidArguments ==
    /\ lastLeg.leg_id.t = "str"
    /\ lastLeg.leg_id.name \in {"FL", "FR", "BL", "BR"}
    /\ \A c \in {lastLeg.x, lastLeg.y, lastLeg.z} : c.t \in {"int", "float"}

C35_Channels ==
    IF lastLeg.leg_id.name = "FR" THEN <<0, 1, 2>>
    ELSE IF lastLeg.leg_id.name = "FL" THEN <<3, 4, 5>>
    ELSE IF lastLeg.leg_id.name = "BR" THEN <<6, 7>>
    ELSE <<8, 9>>

C35_LegPositionOutcome ==
    (mode = "legapi" /\ lastLeg.result # "none") =>
        /\ ~C35_ValidArguments =>
              /\ lastLeg.result = "ValidationError"
              /\ lastLeg.ik = "none"
              /\ lastLeg.calls = <<>>
              /\ nCalls = 0
              /\ servo = <<>>
        /\ C35_ValidArguments =>
              /\ lastLeg.result \in {"True", "False"}
              /\ lastLeg.ik # "none"
              /\ Len(lastLeg.calls) <= Len(C35_Channels)
              /\ \A k \in 1..Len(lastLeg.calls) :
                    /\ lastLeg.calls[k].motor_id.v = C35_Channels[k]
                    /\ k < Len(lastLeg.calls)
                          => lastLeg.calls[k].result = "True"
              /\ lastLeg.ik # "ok" => lastLeg.calls = <<>>
              /\ (lastLeg.result = "True") <=>
                    /\ lastLeg.ik = "ok"
                    /\ Len(lastLeg.calls) = Len(C35_Channels)
                    /\ \A k \in 1..Len(lastLeg.calls) :
                          lastLeg.calls[k].result = "True"
              /\ lastLeg.leg_id.name \in {"BR", "BL"} =>
                    /\ Len(lastLeg.calls) <= 2
                    /\ \A c \in DOMAIN servo : c \notin {2, 5}

\* a front-left call whose hip angle is rejected after the shoulder and the
\* elbow were commanded: the call returns False
C35_Witness ==
    /\ mode = "legapi"
    /\ lastLeg.leg_id = [t |-> "str", name |-> "FL"]
    /\ lastLeg.result = "False"
    /\ lastLeg.ik = "ok"
    /\ Len(lastLeg.calls) = 3
    /\ lastLeg.calls[3].result = "ValidationError"
    /\ 3 \in DOMAIN servo
    /\ 4 \in DOMAIN servo


\* ---------------------------------------------------------------------
\* C36: a failing gait step leaves a prefix of the tick's commands.  The
\* commands issued before the failure are a prefix of the fixed order
\* FR(shoulder, elbow, hip), BR(shoulder, elbow), FL(shoulder, elbow,
\* hip), BL(shoulder, elbow): every command before the last returned True;
\* a leg whose inverse kinematics raised got no command, and the legs
\* before it all of theirs; a rejected or failed set_angle is the last
\* command and no later joint or leg is commanded; the angles written
\* before the failure stay on the servo port.
C36_IsPrefix(log, iks, sv) ==
    /\ Len(log) <= Len(StepOrder)
    /\ \A k \in 1..Len(log) :
          /\ log[k].ch = StepOrder[k]
          /\ k < Len(log) => log[k].result = "True"
          /\ log[k].result = "True" =>
                log[k].ch \in DOMAIN sv /\ sv[log[k].ch] = log[k].angle
          /\ iks[log[k].leg] = "ok"
    /\ \/ Len(log) >= 1 /\ log[Len(log)].result # "True"
       \/ /\ Len(log) \in {0, 3, 5, 8}
          /\ iks[GaitCommands[Len(log) + 1].leg] # "ok"

C36_FailureLeavesPrefix ==
    /\ (mode = "main" /\ pc = "error_stopped"
           /\ hist.failure # "ControllerError")
        => C36_IsPrefix(stepLog,
                        [l \in 1..Len(Legs) |->
                            LegIk(Legs[l], step_index, momentum).result],
                        servo)
    /\ (mode = "gaitapi" /\ lastStep.result \notin {"none", "ok"})
        => C36_IsPrefix(lastStep.commands,
                        [l \in 1..Len(Legs) |->
                            calculate(lastStep.targets[l].x,
                                      lastStep.targets[l].y,
                                      lastStep.targets[l].z,
                                      Legs[l].right).result],
                        servo)

\* the front-right hip angle is rejected after shoulder and elbow were
\* commanded, in a tick after a completed one
C36_Witness ==
    /\ mode = "main"
    /\ pc = "error_stopped"
    /\ cycle_count >= 1
    /\ Len(stepLog) = 3
    /\ stepLog[3].result = "ValidationError"
    /\ stepLog[2].result = "True"
    /\ 1 \in DOMAIN servo
    /\ servo[1] = stepLog[2].angle


\* ---------------------------------------------------------------------
\* C37: set_angle returns True only after a successful hardware write of
\* that call: a call that returned True made a successful write of the
\* requested angle to the requested channel as its last write, and the
\* servo port holds that angle; a call with valid arguments and
\* retry_count <= 0 attempts no write, sends the alert and raises
\* ServoError.
C37_TrueNeedsWrite ==
    (mode = "api" /\ lastCall.result # "none") =>
        /\ lastCall.result = "True" =>
              /\ lastCall.retry_count >= 1
              /\ Len(lastCall.writes) \in 1..lastCall.retry_count
              /\ LET w == lastCall.writes[Len(lastCall.writes)]
                 IN  /\ w.ok
                     /\ w.ch = lastCall.motor_id.v
                     /\ w.angle = lastCall.degrees.v
              /\ \A k \in 1..(Len(lastCall.writes) - 1) :
                    ~lastCall.writes[k].ok
              /\ servo[lastCall.motor_id.v] = lastCall.degrees.v
        /\ (/\ lastCall.retry_count <= 0
            /\ lastCall.motor_id.t = "int"
            /\ lastCall.motor_id.v \in 0..9
            /\ lastCall.degrees.t \in {"int", "float"}
            /\ lastCall.degrees.v \in 0..180)
           => /\ lastCall.writes = <<>>
              /\ lastCall.result = "ServoError"
              /\ lastCall.alerts = 1
              /\ alerts >= 1

\* a call with a negative retry_count raised ServoError without a write
C37_Witness ==
    /\ mode = "api"
    /\ lastCall.result = "ServoError"
    /\ lastCall.retry_count = -1
    /\ lastCall.writes = <<>>
    /\ lastCall.alerts = 1
    /\ servo = <<>>


\* ---------------------------------------------------------------------
\* C38: recorded angles track the hardware.  With a working metrics
\* collaborator the recorded angle of every channel is the angle of the
\* most recent successful hardware write to it (the angle on the servo
\* port), a channel never written successfully has no recorded angle, and
\* a set_angle call that was rejected or whose every attempt failed leaves
\* the recorded angles as they were.
C38_RecordedTracksHardware ==
    /\ []((metrics.present /\ metrics.fails = {}) =>
            /\ DOMAIN motor_angles = DOMAIN servo
            /\ \A c \in DOMAIN servo : motor_angles[c] = servo[c])
    /\ [][ (/\ metrics.present /\ metrics.fails = {}
            /\ nCalls' = nCalls + 1
            /\ lastCall'.result \in {"ValidationError", "ServoError"})
           => /\ motor_angles' = motor_angles
              /\ servo' = servo ]_vars
    /\ [][ (/\ metrics.present /\ metrics.fails = {}
            /\ nCalls' = nCalls + 1
            /\ lastCall'.result = "True")
           => /\ motor_angles'[lastCall'.motor_id.v] = lastCall'.degrees.v
              /\ \A c \in DOMAIN motor_angles :
                    c # lastCall'.motor_id.v
                       => motor_angles'[c] = motor_angles[c] ]_vars

\* a gait command failed on a channel that calibration and an earlier tick
\* had written: the record still holds the earlier angle
C38_Witness ==
    /\ mode = "main"
    /\ metrics.present
    /\ cycle_count >= 1
    /\ lastCall.result = "ServoError"
    /\ lastCall.motor_id.v \in DOMAIN motor_angles
    /\ motor_angles[lastCall.motor_id.v] # lastCall.degrees.v
    /\ motor_angles[lastCall.motor_id.v] = servo[lastCall.motor_id.v]


\* ---------------------------------------------------------------------
\* C39: raising does not reset the receiver's error counter.  After a call
\* has raised ControllerError the counter is at or above 10; from such a
\* state every call that hits a transport error raises ControllerError
\* again and counts on, a timeout or a valid datagram sets the counter to
\* zero, and nothing else lowers it.
C39_ResetsCounter(recv) ==
    \/ recv.kind = "timeout"
    \/ recv.kind = "data" /\ Len(recv.data) >= 16 /\ Len(recv.data) % 4 = 0

C39_CounterSurvivesRaise ==
    /\ []((mode = "rx" /\ rxLast.result = "ControllerError")
             => rx.error_count >= max_consecutive_errors)
    /\ [][ (mode = "rx" /\ rx.error_count >= max_consecutive_errors) =>
             /\ IsError(rxLast') =>
                   /\ rxLast'.result = "ControllerError"
                   /\ rx'.error_count = rx.error_count + 1
             /\ C39_ResetsCounter(rxLast') => rx'.error_count = 0
             /\ rx'.error_count < rx.error_count =>
                   /\ rx'.error_count = 0
                   /\ C39_ResetsCounter(rxLast')
                   /\ rxLast'.result = "return" ]_vars

\* the call after the one that raised at the threshold raised again
C39_Witness ==
    /\ mode = "rx"
    /\ rxLast.result = "ControllerError"
    /\ rx.error_count = max_consecutive_errors + 1
    /\ rxRun >= 2


\* ---------------------------------------------------------------------
\* C40: the local keyboard intent source changes only the forward and
\* lateral fields.  Every call, whatever keys are pressed and also when
\* reading the keyboard raises, returns the vertical-scale and quit fields
\* it was given; started as move starts it (vertical scale 1, quit 0) it
\* never returns quit > 0.5; and a loop of move whose poll returns the
\* vertical-scale and quit fields unchanged, with quit at most 0.5, ends
\* only by a propagated failure or by an external abort.
C40_KeyboardKeepsVerticalAndQuit ==
    /\ [](mode = "kbd" =>
            /\ kb.momentum[3] = 10000
            /\ kb.momentum[4] = 0
            /\ kbLast.result = "return" =>
                  /\ kbLast.returned[3] = kbLast.prev[3]
                  /\ kbLast.returned[4] = kbLast.prev[4]
                  /\ ~(kbLast.returned[4] > 5000))
    /\ [][ mode = "kbd" =>
             /\ kb'.momentum[3] = kb.momentum[3]
             /\ kb'.momentum[4] = kb.momentum[4] ]_vars
    /\ [][ (/\ mode = "main"
            /\ pc \in {"running", "gait"}
            /\ pc' \notin {"running", "gait"}
            /\ momentum'[3] = momentum[3]
            /\ momentum'[4] = momentum[4]
            /\ momentum[4] <= 5)
           => \/ pc' = "error_stopped" /\ raised' # "none"
              \/ pc' = "stopped" /\ interrupted' ]_vars

\* the third call: 'w' and 'd' are held and the second read of the keyboard
\* raises; forward moved, vertical scale and quit are as at the start
C40_Witness ==
    /\ mode = "kbd"
    /\ nKb = MaxKbCalls
    /\ kbLast.result = "return"
    /\ kbLast.fail_at = 2
    /\ kbLast.keys = {"w", "d"}
    /\ kbLast.returned[1] # kbLast.prev[1]
    /\ kbLast.returned[2] = kbLast.prev[2]
    /\ kb.momentum[3] = 10000
    /\ kb.momentum[4] = 0

=============================================================================
